---- MODULE Spec2Model ----
(***************************************************************************)
(* Model of the silo ingestion pipeline (apps/mcp-server): the policy      *)
(* checks of config.rs, the preview scanner of filesystem.rs, the          *)
(* orchestrator of indexer.rs, the per-file pipeline of ingest.rs and the  *)
(* vector store of database.rs.                                            *)
(*                                                                         *)
(* Strings of the program are modelled as sequences of one-character       *)
(* strings; a path is a TLA+ string naming an entry of the modelled        *)
(* filesystem.  blake3 is modelled as a collision-free tagging of its      *)
(* input.                                                                  *)
(***************************************************************************)
EXTENDS Integers, Sequences, FiniteSets, TLC

VARIABLES
    fs,         \* the filesystem: path -> entry (type, stat result, extension, size, children, content)
    roots,      \* the configured roots (Vec<PathBuf>)
    policy,     \* state.fs_policy: the CompiledFileSystemPolicy in the shared slot
    app,        \* the rest of AppState: guards held on fs_policy and config, the position of
                \* set_index_roots, and the policy the index run was started with
    opts,       \* IndexOptions plus ScanOptions of the calls
    fault,      \* path -> the stage of process_file that fails for that file ("none" when it succeeds)
    phase,      \* the caller's position: "preview", "index", "finished"
    pv,         \* locals of preview_index
    ix,         \* locals of index_roots (the coordinator)
    permits,    \* available permits of the semaphore `sem`
    tasks,      \* every process_file invocation started so far, in start order
    notified,   \* the JoinSet's queue of completed, not yet joined tasks, in completion order
    db,         \* the Database: enabled flag, table rows, holder of the table mutex
    hist        \* history (not program state): the summary of the first run, and per path the
                \* rows committed by the last successful replace and the last two successful writes

vars == <<fs, roots, policy, app, opts, fault, phase, pv, ix, permits, tasks, notified, db, hist>>

(***************************************************************************)
(* Bounds of the model.                                                    *)
(***************************************************************************)
NumFiles == 5          \* eligible files of the index-run tree
MaxConcurrency == 2    \* largest IndexOptions.concurrency tried
MaxMaxFiles == 2       \* largest IndexOptions.max_files tried
FileSizeCap == 2       \* max_file_size_bytes of the modelled policy
TextCap == 6           \* max_text_bytes of the modelled policy
MaxSample == 2         \* max_sample_errors, max_sample_candidates, max_sample_skipped of the calls
MaxBatch == 2          \* texts in one embed_texts call of a client
MaxTokens == 6         \* tokens of a text given to the chunker
MaxWindow == 4         \* chunk_tokens and overlap_tokens given to the chunker
MaxBytes == 3          \* bytes of a content given to the extractor
MaxCalls == 2          \* direct process_file calls (silo_ingest_file) in one behaviour
CfgChunkTokens == 2    \* chunk_tokens of the configuration used by silo_ingest_file
CfgChunkOverlap == 1   \* chunk_overlap_tokens of the configuration used by silo_ingest_file

None == "none"

\* Program constants.
SearchLimit == 10      \* .limit(10) of search_documents
ChunkTokens == 500     \* chunk_tokens passed by index_roots
ChunkOverlap == 50     \* chunk_overlap passed by index_roots

(***************************************************************************)
(* Sequence helpers.                                                       *)
(***************************************************************************)
Last(s) == s[Len(s)]
Front(s) == SubSeq(s, 1, Len(s) - 1)
Range(s) == {s[i] : i \in 1..Len(s)}
Min(a, b) == IF a <= b THEN a ELSE b
Max(a, b) == IF a >= b THEN a ELSE b

\* All orderings of a finite set, as sequences without repetition.
Orderings(S) == {s \in [1..Cardinality(S) -> S] : \A i, j \in 1..Cardinality(S) : i # j => s[i] # s[j]}

(***************************************************************************)
(* The filesystem and what the OS calls return.                            *)
(***************************************************************************)
\* Names of the modelled filesystem, in ascending (byte-wise) path order.
PathOrder == <<"r", "r/x", "r/x'", "r/x/z", "r/y", "r1", "r1/f1", "r2", "r2/f2", "r3", "r3/f3",
               "r4", "r4/f4", "r5", "r5/f5", "r6", "r6/f6", "r7", "r7/f7">>
Paths == Range(PathOrder)
PathRank(p) == CHOOSE i \in 1..Len(PathOrder) : PathOrder[i] = p

\* to_ascii_lowercase on the extensions of the model.
ToAsciiLowercase(e) == IF e = "TXT" THEN "txt" ELSE IF e = "PDF" THEN "pdf" ELSE e

\* tokio::fs::symlink_metadata(path): Err, or the type of the entry itself (lstat).
SymlinkMetadataOk(p) == fs[p].statOk

\* tokio::fs::read_dir(path) and the next_entry loop: the entries pushed on the stack.
\* The OS returns the entries in an unspecified order; an error of next_entry ends the
\* loop early ("partial"), so any ordering of any subset can have been pushed.
Listings(p) ==
    IF fs[p].readDir = "partial"
    THEN UNION {Orderings(S) : S \in SUBSET fs[p].children}
    ELSE Orderings(fs[p].children)

(***************************************************************************)
(* config.rs: CompiledFileSystemPolicy.                                    *)
(***************************************************************************)
\* A variant: the exclusion set is applied to files only.
matches_exclude_files_only(pol, p) == p \in pol.exclude /\ fs[p].type # "dir"

\* GlobSet::is_match: the compiled glob set is the set of paths it matches.
matches_exclude(pol, p) == p \in pol.exclude

extension_allowed(pol, p) ==
    IF fs[p].ext = None
    THEN FALSE
    ELSE \E e \in pol.allow_extensions : e = ToAsciiLowercase(fs[p].ext)

(***************************************************************************)
(* filesystem.rs: preview_index.                                           *)
(***************************************************************************)
\* A variant of the rule: the extension is tested before the file type.
PreviewRuleExtensionFirst(pol, current) ==
    IF matches_exclude(pol, current) THEN "excluded"
    ELSE IF ~SymlinkMetadataOk(current) THEN "stat_failure"
    ELSE IF fs[current].type = "symlink" /\ ~pol.follow_symlinks THEN "symlink"
    ELSE IF fs[current].type = "dir"
         THEN (IF fs[current].readDir = "fail" THEN "dir_unreadable" ELSE "dir")
    ELSE IF ~extension_allowed(pol, current) THEN "extension"
    ELSE IF fs[current].type # "file" THEN "non_regular"
    ELSE IF fs[current].size > pol.max_file_size_bytes THEN "size"
    ELSE "candidate"

\* The branch of the loop body of preview_index that `current` takes.
PreviewRule(pol, current) ==
    IF matches_exclude(pol, current) THEN "excluded"
    ELSE IF ~SymlinkMetadataOk(current) THEN "stat_failure"
    ELSE IF fs[current].type = "symlink" /\ ~pol.follow_symlinks THEN "symlink"
    ELSE IF fs[current].type = "dir"
         THEN (IF fs[current].readDir = "fail" THEN "dir_unreadable" ELSE "dir")
    ELSE IF fs[current].type # "file" THEN "non_regular"
    ELSE IF ~extension_allowed(pol, current) THEN "extension"
    ELSE IF fs[current].size > pol.max_file_size_bytes THEN "size"
    ELSE "candidate"

\* The reason string preview_index passes to push_skipped on each skipping branch.
PreviewReason(rule) ==
    CASE rule = "excluded" -> "excluded by glob"
      [] rule = "stat_failure" -> "metadata error: {e}"
      [] rule = "symlink" -> "symlink (skipped)"
      [] rule = "dir_unreadable" -> "read_dir error: {e}"
      [] rule = "non_regular" -> "not a regular file"
      [] rule = "extension" -> "extension not allowlisted"
      [] rule = "size" -> "file too large: {size} bytes"
      [] OTHER -> ""

\* A variant: a directory that read_dir cannot open is not counted as skipped.
SkipRulesReadableOnly == {"excluded", "stat_failure", "symlink", "non_regular", "extension", "size"}

SkipRules == {"excluded", "stat_failure", "symlink", "dir_unreadable", "non_regular", "extension", "size"}

push_skipped(out, max, path, reason) ==
    IF Len(out) >= max THEN out ELSE Append(out, [path |-> path, reason |-> reason])

\* A variant: the candidate sample is not capped.
push_candidate_uncapped(out, max, path) ==
    Append(out, [path |-> path, size_bytes |-> fs[path].size])

push_candidate(out, max, path) ==
    IF Len(out) >= max THEN out ELSE Append(out, [path |-> path, size_bytes |-> fs[path].size])

\* Vec::sort_by(|a, b| a.path.cmp(&b.path)): a stable sort by path.
RECURSIVE InsertByPath(_, _)
InsertByPath(sorted, e) ==
    IF sorted = <<>> THEN <<e>>
    ELSE IF PathRank(Last(sorted).path) <= PathRank(e.path) THEN Append(sorted, e)
    ELSE Append(InsertByPath(Front(sorted), e), Last(sorted))

RECURSIVE SortByPath(_)
SortByPath(s) == IF s = <<>> THEN <<>> ELSE InsertByPath(SortByPath(Front(s)), Last(s))

PreviewStart(rs) ==
    [pc |-> "scan", stack |-> rs, files_seen |-> 0, dirs_seen |-> 0, candidates |-> 0,
     skipped |-> 0, sample_candidates |-> <<>>, sample_skipped |-> <<>>, log |-> {}]

\* One iteration of the loop on an entry that is not a readable directory.
PreviewVisit ==
    /\ phase = "preview" /\ pv.pc = "scan" /\ pv.stack # <<>>
    /\ LET current == Last(pv.stack)
           rule == PreviewRule(policy, current)
       IN /\ rule # "dir"
          /\ pv' = [pv EXCEPT
                !.stack = Front(@),
                !.skipped = IF rule \in SkipRules THEN @ + 1 ELSE @,
                !.sample_skipped = IF rule \in SkipRules
                                   THEN push_skipped(@, opts.max_sample_skipped, current, PreviewReason(rule))
                                   ELSE @,
                !.dirs_seen = IF rule = "dir_unreadable" THEN @ + 1 ELSE @,
                !.files_seen = IF rule \in {"extension", "size", "candidate"} THEN @ + 1 ELSE @,
                !.candidates = IF rule = "candidate" THEN @ + 1 ELSE @,
                !.sample_candidates = IF rule = "candidate"
                                      THEN push_candidate(@, opts.max_sample_candidates, current)
                                      ELSE @,
                !.log = @ \cup {<<current, rule, PreviewReason(rule)>>}]
    /\ UNCHANGED <<fs, roots, policy, app, opts, fault, phase, ix, permits, tasks, notified, db, hist>>

\* One iteration of the loop on a directory that read_dir opens: its entries are pushed.
PreviewReadDir ==
    /\ phase = "preview" /\ pv.pc = "scan" /\ pv.stack # <<>>
    /\ LET current == Last(pv.stack)
       IN /\ PreviewRule(policy, current) = "dir"
          /\ \E entries \in Listings(current) :
                pv' = [pv EXCEPT !.stack = Front(@) \o entries,
                                 !.dirs_seen = @ + 1,
                                 !.log = @ \cup {<<current, "dir", "">>}]
    /\ UNCHANGED <<fs, roots, policy, app, opts, fault, phase, ix, permits, tasks, notified, db, hist>>

\* The stack is empty: sort the samples and return the ScanSummary.
PreviewReturn ==
    /\ phase = "preview" /\ pv.pc = "scan" /\ pv.stack = <<>>
    /\ pv' = [pv EXCEPT !.pc = "done",
                        !.sample_candidates = SortByPath(@),
                        !.sample_skipped = SortByPath(@)]
    /\ phase' = "index"
    /\ app' = [app EXCEPT !.readers = @ - 1, !.run_policy = <<policy>>]
    /\ UNCHANGED <<fs, roots, policy, opts, fault, ix, permits, tasks, notified, db, hist>>

(***************************************************************************)
(* extract.rs and chunk.rs: text extraction and chunking (pure functions). *)
(***************************************************************************)
\* truncate_bytes: (bytes, truncated).
truncate_bytes(bytes, max_bytes) ==
    IF Len(bytes) <= max_bytes
    THEN [bytes |-> bytes, truncated |-> FALSE]
    ELSE [bytes |-> SubSeq(bytes, 1, max_bytes), truncated |-> TRUE]

\* String::from_utf8_lossy(&bytes).to_string(), as the bytes of the resulting String.
\* The bytes of the model: "L" is the lead byte and "C" the continuation byte of one
\* two-byte character; every other byte is an ASCII character. A lead byte without its
\* continuation, and a continuation byte on its own, become U+FFFD (three bytes).
ReplacementChar == <<"EF", "BF", "BD">>

RECURSIVE from_utf8_lossy(_)
from_utf8_lossy(bytes) ==
    IF bytes = <<>> THEN <<>>
    ELSE IF Head(bytes) = "L"
         THEN (IF Len(bytes) >= 2 /\ bytes[2] = "C"
               THEN <<"L", "C">> \o from_utf8_lossy(Tail(Tail(bytes)))
               ELSE ReplacementChar \o from_utf8_lossy(Tail(bytes)))
    ELSE IF Head(bytes) = "C" THEN ReplacementChar \o from_utf8_lossy(Tail(bytes))
    ELSE <<Head(bytes)>> \o from_utf8_lossy(Tail(bytes))

\* extract_plain_text on the bytes read from the file.
extract_plain_text(bytes, max_text_bytes) ==
    LET t == truncate_bytes(bytes, max_text_bytes)
    IN [text |-> from_utf8_lossy(t.bytes), truncated |-> t.truncated]

\* detect_kind on the extension of the path
detect_kind(ext) ==
    IF ext = None THEN "Unknown"
    ELSE IF ToAsciiLowercase(ext) = "pdf" THEN "Pdf" ELSE "Text"

\* extract_pdf_pdftotext: `run` is what running pdftotext gave ("spawn_failed",
\* "exit_failure" or "ok") and stdout the bytes it wrote.
extract_pdf_pdftotext(run, stdout, max_text_bytes) ==
    IF run = "spawn_failed" THEN [ok |-> FALSE, kind |-> "Pdf", text |-> <<>>, truncated |-> FALSE,
                                   msg |-> "Failed to run pdftotext"]
    ELSE IF run = "exit_failure" THEN [ok |-> FALSE, kind |-> "Pdf", text |-> <<>>, truncated |-> FALSE,
                                       msg |-> "pdftotext failed"]
    ELSE LET t == truncate_bytes(stdout, max_text_bytes)
         IN [ok |-> TRUE, kind |-> "Pdf", text |-> from_utf8_lossy(t.bytes), truncated |-> t.truncated,
             msg |-> ""]

\* extract_text: `read` is what tokio::fs::read gave ("failed" or "ok"), `bytes` the bytes
\* of the file for a text file and the output of pdftotext for a pdf.
extract_text(ext, read, run, bytes, max_text_bytes) ==
    IF detect_kind(ext) = "Pdf" THEN extract_pdf_pdftotext(run, bytes, max_text_bytes)
    ELSE IF read = "failed"
         THEN [ok |-> FALSE, kind |-> "Text", text |-> <<>>, truncated |-> FALSE, msg |-> "Failed to read file"]
    ELSE LET e == extract_plain_text(bytes, max_text_bytes)
         IN [ok |-> TRUE, kind |-> "Text", text |-> e.text, truncated |-> e.truncated, msg |-> ""]

\* str::split_whitespace: the maximal runs of non-space characters.
RECURSIVE SplitFrom(_, _, _, _)
SplitFrom(text, i, cur, acc) ==
    IF i > Len(text) THEN (IF cur = <<>> THEN acc ELSE Append(acc, cur))
    ELSE IF text[i] = " " THEN SplitFrom(text, i + 1, <<>>, IF cur = <<>> THEN acc ELSE Append(acc, cur))
    ELSE SplitFrom(text, i + 1, Append(cur, text[i]), acc)

\* A variant: the last token of the text is lost.
split_whitespace_lossy(text) == Front(SplitFrom(text, 1, <<>>, <<>>))

split_whitespace(text) == SplitFrom(text, 1, <<>>, <<>>)

\* A variant: the tokens are concatenated without a separator.
RECURSIVE JoinConcat(_)
JoinConcat(toks) == IF toks = <<>> THEN <<>> ELSE JoinConcat(Front(toks)) \o Last(toks)

\* slice.join(" ")
RECURSIVE JoinSpace(_)
JoinSpace(toks) ==
    IF toks = <<>> THEN <<>>
    ELSE IF Len(toks) = 1 THEN toks[1]
    ELSE JoinSpace(Front(toks)) \o <<" ">> \o Last(toks)

saturating_sub(a, b) == IF a >= b THEN a - b ELSE 0

\* A variant of the loop: the next window starts where the last one ended.
RECURSIVE ChunkLoopNoOverlap(_, _, _, _, _, _)
ChunkLoopNoOverlap(tokens, chunk_tokens, overlap, start, idx, chunks) ==
    IF ~(start < Len(tokens)) THEN chunks
    ELSE LET end == Min(start + chunk_tokens, Len(tokens))
             chunk == [index |-> idx,
                       text |-> JoinSpace(SubSeq(tokens, start + 1, end)),
                       start_token |-> start,
                       end_token |-> end]
         IN ChunkLoopNoOverlap(tokens, chunk_tokens, overlap, end, idx + 1, Append(chunks, chunk))

\* The while loop of chunk_by_whitespace_tokens, from `start` and `idx` on.
RECURSIVE ChunkLoop(_, _, _, _, _, _)
ChunkLoop(tokens, chunk_tokens, overlap, start, idx, chunks) ==
    IF ~(start < Len(tokens)) THEN chunks
    ELSE LET end == Min(start + chunk_tokens, Len(tokens))
             chunk == [index |-> idx,
                       text |-> JoinSpace(SubSeq(tokens, start + 1, end)),
                       start_token |-> start,
                       end_token |-> end]
         IN IF end = Len(tokens)
            THEN Append(chunks, chunk)
            ELSE ChunkLoop(tokens, chunk_tokens, overlap, saturating_sub(end, overlap), idx + 1,
                           Append(chunks, chunk))

chunk_by_whitespace_tokens(text, chunk_tokens, overlap_tokens) ==
    LET tokens == split_whitespace(text)
    IN IF tokens = <<>> \/ chunk_tokens = 0
       THEN <<>>
       ELSE ChunkLoop(tokens, chunk_tokens, Min(overlap_tokens, saturating_sub(chunk_tokens, 1)),
                      0, 0, <<>>)

(***************************************************************************)
(* database.rs: the table behind its mutex.                                *)
(***************************************************************************)
\* blake3::hash(..).to_hex(): collision-free on the inputs of the model.
Blake3(x) == <<"blake3", x>>

\* The id replace_file_chunks gives a row: blake3("{path}\n{chunk_index}\n{blake3(content)}").
RowId(path, chunk_index, content) == Blake3(<<path, chunk_index, Blake3(content)>>)

\* A row id that also covers the file's modification time.
BuildRowsIdWithMtime(path, file_mtime, file_size, file_hash, rows) ==
    {[id |-> Blake3(<<path, r.index, Blake3(r.text), file_mtime>>),
      path |-> path,
      chunk_index |-> r.index,
      start_token |-> r.start_token,
      end_token |-> r.end_token,
      file_mtime_epoch_secs |-> file_mtime,
      file_size_bytes |-> file_size,
      file_hash |-> file_hash,
      content |-> r.text] : r \in Range(rows)}

\* The Row values replace_file_chunks builds from its arguments.
BuildRows(path, file_mtime, file_size, file_hash, rows) ==
    {[id |-> RowId(path, r.index, r.text),
      path |-> path,
      chunk_index |-> r.index,
      start_token |-> r.start_token,
      end_token |-> r.end_token,
      file_mtime_epoch_secs |-> file_mtime,
      file_size_bytes |-> file_size,
      file_hash |-> file_hash,
      content |-> r.text] : r \in Range(rows)}

\* The characters of a path of the model.
PathChars(p) ==
    CASE p = "r/x" -> <<"r", "/", "x">>
      [] p = "r/x'" -> <<"r", "/", "x", "'">>
      [] p = "r/x/z" -> <<"r", "/", "x", "/", "z">>
      [] p = "r/y" -> <<"r", "/", "y">>
      [] OTHER -> <<p>>

\* path.replace('\'', "''")
RECURSIVE EscapeQuotes(_)
EscapeQuotes(chars) ==
    IF chars = <<>> THEN <<>>
    ELSE (IF Head(chars) = "'" THEN <<"'", "'">> ELSE <<Head(chars)>>) \o EscapeQuotes(Tail(chars))

\* The value the SQL parser reads for the body of a quoted string literal: two quotes
\* stand for one, a single quote inside the body is a syntax error.
RECURSIVE SqlLiteralValue(_)
SqlLiteralValue(body) ==
    IF body = <<>> THEN [ok |-> TRUE, value |-> <<>>]
    ELSE IF Head(body) # "'"
         THEN LET rest == SqlLiteralValue(Tail(body))
              IN [ok |-> rest.ok, value |-> <<Head(body)>> \o rest.value]
    ELSE IF Len(body) >= 2 /\ body[2] = "'"
         THEN LET rest == SqlLiteralValue(Tail(Tail(body)))
              IN [ok |-> rest.ok, value |-> <<"'">> \o rest.value]
    ELSE [ok |-> FALSE, value |-> <<>>]

\* A variant: the predicate matches every path that starts with the value.
PredicateMatchesPrefix(value, chars) ==
    Len(value) <= Len(chars) /\ SubSeq(chars, 1, Len(value)) = value

\* The predicate `path = '<value>'` evaluated on a row whose path is `chars`.
PredicateMatches(value, chars) == chars = value

\* delete_by_path: table.delete("path = '<escaped path>'"). The table is a bag of rows,
\* kept as a function from row to its number of copies.
delete_by_path(table, path) ==
    LET lit == SqlLiteralValue(EscapeQuotes(PathChars(path)))
    IN [r \in {q \in DOMAIN table : ~(lit.ok /\ PredicateMatches(lit.value, PathChars(q.path)))} |-> table[r]]

\* add_rows: one bulk insert (table.add) of the given rows.
add_rows(table, rows) ==
    [r \in DOMAIN table \cup rows |->
        (IF r \in DOMAIN table THEN table[r] ELSE 0) + (IF r \in rows THEN 1 ELSE 0)]

\* add_row: insert of one row.
add_row(table, row) == add_rows(table, {row})

\* A variant: every store is taken for an enabled one.
IsEnabledAlways(d) == TRUE

\* Database::is_enabled, and the `let Database::Enabled(db) = self else` of each operation.
is_enabled(d) == d.enabled

\* Database::disabled_reason
disabled_reason(d) == IF d.enabled THEN <<>> ELSE d.reason

\* The row add_document stores.
DocumentRow(path, content) ==
    [id |-> Blake3(<<path, 0>>), path |-> path, chunk_index |-> 0, start_token |-> 0, end_token |-> 0,
     file_mtime_epoch_secs |-> <<>>, file_size_bytes |-> <<>>, file_hash |-> <<>>, content |-> content]

\* The row add_chunk stores: the caller gives the id.
ChunkRow(id, path, chunk_index, start_token, end_token, content) ==
    [id |-> id, path |-> path, chunk_index |-> chunk_index, start_token |-> start_token,
     end_token |-> end_token, file_mtime_epoch_secs |-> <<>>, file_size_bytes |-> <<>>,
     file_hash |-> <<>>, content |-> content]

\* search_documents: the nearest rows, at most SearchLimit of them (the table of the
\* model is smaller, and every stored vector is at the same distance of the zero query).
search_documents(table) ==
    {hits \in SUBSET DOMAIN table :
        Cardinality(hits) = Min(Cardinality(DOMAIN table), SearchLimit)}

\* Database::search_chunks_by_vector(qvec, k): the ids of the nearest rows; on a disabled
\* store a read returns an empty result. (The model's table holds fewer rows than any k.)
search_chunks_by_vector(d) ==
    IF d.enabled THEN {{r.id : r \in DOMAIN d.table}} ELSE {{}}

\* The rows stored for a path.
RowsOf(table, path) == {r \in DOMAIN table : r.path = path}

\* The number of rows stored for a path, copies included.
RECURSIVE SumCopies(_, _)
SumCopies(table, rs) ==
    IF rs = {} THEN 0
    ELSE LET r == CHOOSE q \in rs : TRUE IN table[r] + SumCopies(table, rs \ {r})

RowCount(table, path) == SumCopies(table, RowsOf(table, path))

(***************************************************************************)
(* ingest.rs: process_file, one invocation per entry of `tasks`.           *)
(* A task is [path, joinset, st, text, res, ..]: st is its position        *)
(* ("extract", "embed", "lock", "add", then "completed", and "joined" once *)
(* the coordinator has taken its result); joinset tells whether it was     *)
(* spawned by index_roots (holding a permit) or called directly.           *)
(***************************************************************************)
\* A variant: the stats always report stored = true.
OkResultStored(stored) == [kind |-> "ok", stored |-> TRUE, msg |-> ""]

\* A variant: a failed stage is reported as a success.
ErrResultAsOk(msg) == [kind |-> "ok", stored |-> TRUE, msg |-> msg]

\* Ok(IngestStats { stored, .. })
OkResult(stored) == [kind |-> "ok", stored |-> stored, msg |-> ""]
ErrResult(msg) == [kind |-> "err", stored |-> FALSE, msg |-> msg]
PanicResult == [kind |-> "panic", stored |-> FALSE, msg |-> "task join error"]
NoResult == [kind |-> None, stored |-> FALSE, msg |-> ""]

NewTask(path, joinset, w, o) ==
    [path |-> path, joinset |-> joinset, st |-> "extract", text |-> <<>>, res |-> NoResult,
     chunk_tokens |-> w, chunk_overlap_tokens |-> o,
     file_mtime_epoch_secs |-> 0, file_size_bytes |-> 0]

\* The rows argument process_file passes to replace_file_chunks.
TaskChunks(t) == chunk_by_whitespace_tokens(tasks[t].text, tasks[t].chunk_tokens, tasks[t].chunk_overlap_tokens)

TaskRows(t) ==
    LET path == tasks[t].path
    IN BuildRows(path, <<tasks[t].file_mtime_epoch_secs>>, <<tasks[t].file_size_bytes>>,
                 <<Blake3(tasks[t].text)>>, TaskChunks(t))

\* The task's future ends with result `res`: the permit is dropped and the JoinSet is notified.
Complete(t, res) ==
    /\ tasks' = [tasks EXCEPT ![t].st = "completed", ![t].res = res]
    /\ permits' = IF tasks[t].joinset THEN permits + 1 ELSE permits
    /\ notified' = IF tasks[t].joinset THEN Append(notified, t) ELSE notified

\* tokio::fs::metadata(path), then extract_text(path, max_text_bytes)
TaskExtract(t) ==
    /\ tasks[t].st = "extract"
    /\ fault[tasks[t].path] # "hang"
    /\ LET path == tasks[t].path
       IN IF fault[path] = "panic" THEN Complete(t, PanicResult)
          ELSE IF fault[path] = "extract" THEN Complete(t, ErrResult("Failed to read file"))
          ELSE /\ tasks' = [tasks EXCEPT
                      ![t].st = "embed",
                      ![t].file_mtime_epoch_secs = fs[path].mtime,
                      ![t].file_size_bytes = Len(fs[path].content),
                      ![t].text = extract_plain_text(fs[path].content, policy.max_text_bytes).text]
               /\ UNCHANGED <<permits, notified>>
    /\ UNCHANGED <<fs, roots, policy, app, opts, fault, phase, pv, ix, db, hist>>

\* chunk_by_whitespace_tokens, embed_texts and the check of the number of vectors
TaskEmbed(t) ==
    /\ tasks[t].st = "embed"
    /\ LET path == tasks[t].path
       IN IF fault[path] = "embed" THEN Complete(t, ErrResult("embed failed"))
          ELSE IF fault[path] = "embed_count" THEN Complete(t, ErrResult("embedder returned {} vectors for {} chunks"))
          ELSE IF ~is_enabled(db) THEN Complete(t, OkResult(FALSE))
          ELSE /\ tasks' = [tasks EXCEPT ![t].st = "lock"]
               /\ UNCHANGED <<permits, notified>>
    /\ UNCHANGED <<fs, roots, policy, app, opts, fault, phase, pv, ix, db, hist>>

\* A variant: the table is accessed without waiting for the mutex.
LockIgnored(d) == TRUE

\* db.table.lock().await returns the guard only while no other guard exists.
LockFree(d) == d.lock = 0

\* replace_file_chunks: db.table.lock().await, then delete_by_path
TaskLockDelete(t) ==
    /\ tasks[t].st = "lock"
    /\ LockFree(db)
    /\ LET path == tasks[t].path
       IN IF fault[path] = "delete"
          THEN /\ Complete(t, ErrResult("DB write failed"))
               /\ UNCHANGED db
          ELSE /\ db' = [db EXCEPT !.lock = t, !.table = delete_by_path(@, path)]
               /\ tasks' = [tasks EXCEPT ![t].st = "add"]
               /\ UNCHANGED <<permits, notified>>
    /\ UNCHANGED <<fs, roots, policy, app, opts, fault, phase, pv, ix, hist>>

\* History: what a successful write of task t read and what the table then holds for its path.
WriteRecord(t, table) ==
    [text |-> tasks[t].text,
     params |-> <<tasks[t].chunk_tokens, tasks[t].chunk_overlap_tokens>>,
     mtime |-> tasks[t].file_mtime_epoch_secs,
     ids |-> {r.id : r \in RowsOf(table, tasks[t].path)},
     n |-> RowCount(table, tasks[t].path)]

\* replace_file_chunks: build the rows, add_rows, return (the mutex guard is dropped)
TaskAdd(t) ==
    /\ tasks[t].st = "add"
    /\ LET path == tasks[t].path
       IN IF fault[path] = "add"
          THEN /\ Complete(t, ErrResult("DB write failed"))
               /\ db' = [db EXCEPT !.lock = 0]
               /\ UNCHANGED hist
          ELSE /\ Complete(t, OkResult(TRUE))
               /\ db' = [db EXCEPT !.lock = 0, !.table = add_rows(@, TaskRows(t))]
               /\ hist' = [hist EXCEPT !.lastGood[path] = TaskRows(t),
                                       !.prev[path] = hist.last[path],
                                       !.last[path] = <<WriteRecord(t, db'.table)>>]
    /\ UNCHANGED <<fs, roots, policy, app, opts, fault, phase, pv, ix>>

(***************************************************************************)
(* indexer.rs: index_roots, the coordinator.                               *)
(***************************************************************************)
\* A variant: a semaphore of one permit.
SemaphoreSinglePermit(concurrency) == 1

\* A variant: the semaphore sized like the drain threshold.
SemaphorePermitsDoubled(concurrency) == Max(concurrency, 1) * 2

\* A variant: the semaphore sized by opts.concurrency itself, without the floor of one.
SemaphoreNoFloor(concurrency) == concurrency

\* Semaphore::new(opts.concurrency.max(1))
SemaphorePermits(concurrency) == Max(concurrency, 1)

\* A variant: an unset max_files read as 0.
TargetReachedDefaultZero(ingested, max_files) ==
    ingested >= (IF max_files = <<>> THEN 0 ELSE max_files[1])

\* `ingested >= ingested_target`, with ingested_target = max_files.unwrap_or(u64::MAX);
\* an Option is <<>> (None) or <<v>> (Some(v)), and no counter reaches u64::MAX.
TargetReached(ingested, max_files) == max_files # <<>> /\ ingested >= max_files[1]

\* A variant: the drain starts one task later.
DrainThresholdLate(len, concurrency) == len > concurrency * 2

\* `tasks.len() >= opts.concurrency * 2`
DrainThreshold(len, concurrency) == len >= concurrency * 2

\* JoinSet::len(): the tasks spawned and not yet joined.
\* A variant: the JoinSet is taken for empty.
JoinSetLenZero(ts) == 0

JoinSetLen(ts) == Cardinality({t \in 1..Len(ts) : ts[t].joinset /\ ts[t].st # "joined"})

\* A variant: the error sample is not capped.
push_err_uncapped(out, max, msg) == Append(out, msg)

push_err(out, max, msg) == IF Len(out) < max THEN Append(out, msg) ELSE out

\* A variant of the rule: a file whose size equals the cap is skipped.
IndexRuleSizeInclusive(pol, current) ==
    IF matches_exclude(pol, current) THEN "excluded"
    ELSE IF ~SymlinkMetadataOk(current) THEN "stat_failure"
    ELSE IF fs[current].type = "symlink" /\ ~pol.follow_symlinks THEN "symlink"
    ELSE IF fs[current].type = "dir"
         THEN (IF fs[current].readDir = "fail" THEN "dir_unreadable" ELSE "dir")
    ELSE IF fs[current].type # "file" THEN "non_regular"
    ELSE IF ~extension_allowed(pol, current) THEN "extension"
    ELSE IF fs[current].size >= pol.max_file_size_bytes THEN "size"
    ELSE "candidate"

\* The branch of the loop body of index_roots that `current` takes.
IndexRule(pol, current) ==
    IF matches_exclude(pol, current) THEN "excluded"
    ELSE IF ~SymlinkMetadataOk(current) THEN "stat_failure"
    ELSE IF fs[current].type = "symlink" /\ ~pol.follow_symlinks THEN "symlink"
    ELSE IF fs[current].type = "dir"
         THEN (IF fs[current].readDir = "fail" THEN "dir_unreadable" ELSE "dir")
    ELSE IF fs[current].type # "file" THEN "non_regular"
    ELSE IF ~extension_allowed(pol, current) THEN "extension"
    ELSE IF fs[current].size > pol.max_file_size_bytes THEN "size"
    ELSE "candidate"

IndexStart(rs) ==
    [pc |-> "scan", stack |-> rs, current |-> None, scanned_files |-> 0, scanned_dirs |-> 0,
     ingested |-> 0, skipped |-> 0, errors |-> 0, stored |-> 0, sample_errors |-> <<>>, log |-> {}]

\* A variant: the opportunistic drain counts the successful tasks only.
DrainMatchOkOnly(ixr, t) ==
    IF tasks[t].res.kind = "ok"
    THEN [ixr EXCEPT !.ingested = @ + 1, !.stored = IF tasks[t].res.stored THEN @ + 1 ELSE @]
    ELSE ixr

\* The `match joined` of the opportunistic drain, applied to the result of task t.
DrainMatch(ixr, t) ==
    CASE tasks[t].res.kind = "ok" ->
            [ixr EXCEPT !.ingested = @ + 1, !.stored = IF tasks[t].res.stored THEN @ + 1 ELSE @]
      [] tasks[t].res.kind = "err" ->
            [ixr EXCEPT !.errors = @ + 1,
                        !.sample_errors = push_err(@, opts.max_sample_errors, <<"ingest", tasks[t].path, tasks[t].res.msg>>)]
      [] OTHER ->
            [ixr EXCEPT !.errors = @ + 1,
                        !.sample_errors = push_err(@, opts.max_sample_errors, <<"task join error">>)]

\* A variant: a failed task ends the final loop (the remaining tasks are never joined).
FinishMatchAborts(ixr, t) ==
    CASE tasks[t].res.kind = "ok" ->
            [ixr EXCEPT !.ingested = @ + 1, !.stored = IF tasks[t].res.stored THEN @ + 1 ELSE @]
      [] OTHER ->
            [ixr EXCEPT !.errors = @ + 1, !.pc = "done"]

\* The `match joined` of the final loop, applied to the result of task t.
FinishMatch(ixr, t) ==
    CASE tasks[t].res.kind = "ok" ->
            [ixr EXCEPT !.ingested = @ + 1, !.stored = IF tasks[t].res.stored THEN @ + 1 ELSE @]
      [] tasks[t].res.kind = "err" ->
            [ixr EXCEPT !.errors = @ + 1,
                        !.sample_errors = push_err(@, opts.max_sample_errors, <<"ingest", tasks[t].path, tasks[t].res.msg>>)]
      [] OTHER ->
            [ixr EXCEPT !.errors = @ + 1,
                        !.sample_errors = push_err(@, opts.max_sample_errors, <<"task join error">>)]

\* The counts of the IndexSummary that index_roots returns.
Summary(ixr) ==
    [scanned_files |-> ixr.scanned_files, scanned_dirs |-> ixr.scanned_dirs, ingested |-> ixr.ingested,
     skipped |-> ixr.skipped, errors |-> ixr.errors, stored |-> ixr.stored]

\* The `policy: Arc<CompiledFileSystemPolicy>` argument of index_roots.
RunPolicy == app.run_policy[1]

\* `while let Some(current) = stack.pop()` finds the stack empty.
IndexLoopEnd ==
    /\ phase = "index" /\ ix.pc = "scan" /\ ix.stack = <<>>
    /\ ix' = [ix EXCEPT !.pc = "finish"]
    /\ UNCHANGED <<fs, roots, policy, app, opts, fault, phase, pv, permits, tasks, notified, db, hist>>

\* An entry is popped and `ingested >= ingested_target` breaks out of the loop.
IndexBreak ==
    /\ phase = "index" /\ ix.pc = "scan" /\ ix.stack # <<>>
    /\ TargetReached(ix.ingested, opts.max_files)
    /\ ix' = [ix EXCEPT !.pc = "finish", !.stack = Front(@)]
    /\ UNCHANGED <<fs, roots, policy, app, opts, fault, phase, pv, permits, tasks, notified, db, hist>>

\* One iteration on an entry that is not a readable directory, up to `continue`
\* or to the await of the permit.
IndexVisit ==
    /\ phase = "index" /\ ix.pc = "scan" /\ ix.stack # <<>>
    /\ ~TargetReached(ix.ingested, opts.max_files)
    /\ LET current == Last(ix.stack)
           rule == IndexRule(RunPolicy, current)
       IN /\ rule # "dir"
          /\ ix' = [ix EXCEPT
                !.stack = Front(@),
                !.skipped = IF rule \in SkipRules THEN @ + 1 ELSE @,
                !.sample_errors =
                    IF rule = "stat_failure" THEN push_err(@, opts.max_sample_errors, <<"metadata", current>>)
                    ELSE IF rule = "dir_unreadable" THEN push_err(@, opts.max_sample_errors, <<"read_dir", current>>)
                    ELSE @,
                !.scanned_dirs = IF rule = "dir_unreadable" THEN @ + 1 ELSE @,
                !.scanned_files = IF rule \in {"extension", "size", "candidate"} THEN @ + 1 ELSE @,
                !.current = IF rule = "candidate" THEN current ELSE @,
                !.pc = IF rule = "candidate" THEN "acquire" ELSE @,
                !.log = @ \cup {<<current, rule>>}]
    /\ UNCHANGED <<fs, roots, policy, app, opts, fault, phase, pv, permits, tasks, notified, db, hist>>

\* One iteration on a directory that read_dir opens.
IndexReadDir ==
    /\ phase = "index" /\ ix.pc = "scan" /\ ix.stack # <<>>
    /\ ~TargetReached(ix.ingested, opts.max_files)
    /\ LET current == Last(ix.stack)
       IN /\ IndexRule(RunPolicy, current) = "dir"
          /\ \E entries \in Listings(current) :
                ix' = [ix EXCEPT !.stack = Front(@) \o entries,
                                 !.scanned_dirs = @ + 1,
                                 !.log = @ \cup {<<current, "dir">>}]
    /\ UNCHANGED <<fs, roots, policy, app, opts, fault, phase, pv, permits, tasks, notified, db, hist>>

\* sem.clone().acquire_owned().await
IndexAcquire ==
    /\ phase = "index" /\ ix.pc = "acquire"
    /\ permits > 0
    /\ permits' = permits - 1
    /\ ix' = [ix EXCEPT !.pc = "spawn"]
    /\ UNCHANGED <<fs, roots, policy, app, opts, fault, phase, pv, tasks, notified, db, hist>>

\* tasks.spawn(..): the permit moves into the task; then the test of the drain loop.
IndexSpawn ==
    /\ phase = "index" /\ ix.pc = "spawn"
    /\ tasks' = Append(tasks, NewTask(ix.current, TRUE, ChunkTokens, ChunkOverlap))
    /\ ix' = [ix EXCEPT !.current = None,
                        !.pc = IF DrainThreshold(JoinSetLen(tasks'), opts.concurrency) THEN "drain" ELSE "scan"]
    /\ UNCHANGED <<fs, roots, policy, app, opts, fault, phase, pv, permits, notified, db, hist>>

\* tasks.join_next().await in the drain loop, and the next test of the loop.
IndexDrainJoin ==
    /\ phase = "index" /\ ix.pc = "drain"
    /\ notified # <<>>
    /\ LET t == Head(notified)
       IN /\ tasks' = [tasks EXCEPT ![t].st = "joined"]
          /\ notified' = Tail(notified)
          /\ ix' = [DrainMatch(ix, t) EXCEPT
                        !.pc = IF JoinSetLen(tasks') > 0 /\ DrainThreshold(JoinSetLen(tasks'), opts.concurrency)
                               THEN "drain" ELSE "scan"]
    /\ UNCHANGED <<fs, roots, policy, app, opts, fault, phase, pv, permits, db, hist>>

\* tasks.join_next().await in the final loop.
IndexFinishJoin ==
    /\ phase = "index" /\ ix.pc = "finish"
    /\ notified # <<>>
    /\ LET t == Head(notified)
       IN /\ tasks' = [tasks EXCEPT ![t].st = "joined"]
          /\ notified' = Tail(notified)
          /\ ix' = FinishMatch(ix, t)
    /\ UNCHANGED <<fs, roots, policy, app, opts, fault, phase, pv, permits, db, hist>>

\* join_next() returns None: the IndexSummary is returned.
IndexReturn ==
    /\ phase = "index" /\ ix.pc = "finish"
    /\ JoinSetLen(tasks) = 0
    /\ ix' = [ix EXCEPT !.pc = "done"]
    /\ phase' = "finished"
    /\ UNCHANGED <<fs, roots, policy, app, opts, fault, pv, permits, tasks, notified, db, hist>>

(***************************************************************************)
(* Initial states.                                                         *)
(***************************************************************************)
FileEntry(ext, size, content) ==
    [type |-> "file", target |-> None, statOk |-> TRUE, readDir |-> None, ext |-> ext,
     size |-> size, children |-> {}, content |-> content, mtime |-> 1]

DirEntry(children) ==
    [type |-> "dir", target |-> None, statOk |-> TRUE, readDir |-> "ok", ext |-> None,
     size |-> 0, children |-> children, content |-> <<>>, mtime |-> 1]

EmptyTable == [r \in {} |-> 0]

\* AppState while the handler of silo_preview_index runs preview_index: it holds a read
\* guard on fs_policy; nobody holds config.
AppInPreview == [readers |-> 1, cfg_writer |-> FALSE, set_pc |-> "idle", run_policy |-> <<>>,
                 preview_pc |-> "scan"]

\* AppState while no scan runs.
AppIdle == [readers |-> 0, cfg_writer |-> FALSE, set_pc |-> "idle", run_policy |-> <<>>,
            preview_pc |-> "idle"]

InitCommon ==
    /\ phase = "preview"
    /\ app = AppInPreview
    /\ pv = PreviewStart(roots)
    /\ ix = IndexStart(roots)
    /\ permits = SemaphorePermits(opts.concurrency)
    /\ tasks = <<>>
    /\ notified = <<>>
    /\ hist = [lastGood |-> [p \in DOMAIN fs |-> {}], first |-> <<>>,
               last |-> [p \in DOMAIN fs |-> <<>>], prev |-> [p \in DOMAIN fs |-> <<>>],
               calls |-> 0, ret |-> <<>>]

\* The tree of the index runs: roots r1, r2, .., each a directory holding one eligible file.
RunDirs == <<"r1", "r2", "r3", "r4", "r5", "r6", "r7">>
RunFileNames == <<"r1/f1", "r2/f2", "r3/f3", "r4/f4", "r5/f5", "r6/f6", "r7/f7">>
RunFiles == {RunFileNames[i] : i \in 1..NumFiles}
RunRoots == SubSeq(RunDirs, 1, NumFiles)
RunFs ==
    [p \in Range(RunRoots) \cup RunFiles |->
        IF p \in RunFiles
        THEN FileEntry("txt", 1, <<"a">>)
        ELSE DirEntry({RunFileNames[i] : i \in {j \in 1..NumFiles : RunDirs[j] = p}})]

\* A failure before the store is reached, inside the store, and a panic of the task.
FaultKinds == {"extract", "add", "panic"}

\* Every stage of process_file that can fail.
StoreFaultKinds == {"extract", "embed", "embed_count", "delete", "add", "panic"}

\* Every file succeeds, or one file fails at one stage.
RunFaults ==
    {[p \in RunFiles |-> None]}
        \cup {[p \in RunFiles |-> IF p = q THEN k ELSE None] : q \in RunFiles, k \in FaultKinds}

\* No file fails, or the extraction of one file never terminates (a hung pdftotext)
\* while the other files succeed or one of them fails to extract.
HangFaults ==
    {[p \in RunFiles |-> None]}
        \cup {[p \in RunFiles |-> IF p = q THEN "hang" ELSE None] : q \in RunFiles}
        \cup {[p \in RunFiles |-> IF p = q THEN "hang" ELSE IF p = e THEN "extract" ELSE None] :
                    q \in RunFiles, e \in RunFiles}

InitHang ==
    /\ fs = RunFs
    /\ roots = RunRoots
    /\ policy = [exclude |-> {}, allow_extensions |-> {"txt"}, max_file_size_bytes |-> FileSizeCap,
                 max_text_bytes |-> TextCap, follow_symlinks |-> FALSE, instance |-> 0]
    /\ opts \in [max_files : {<<>>, <<1>>}, concurrency : 1..MaxConcurrency,
                 max_sample_errors : {MaxSample}, max_sample_candidates : {MaxSample},
                 max_sample_skipped : {MaxSample}]
    /\ fault \in HangFaults
    /\ db = [enabled |-> TRUE, reason |-> <<>>, table |-> EmptyTable, lock |-> 0]
    /\ InitCommon

\* The index run on a store that is enabled or disabled.
InitStored ==
    /\ fs = RunFs
    /\ roots = RunRoots
    /\ policy = [exclude |-> {}, allow_extensions |-> {"txt"}, max_file_size_bytes |-> FileSizeCap,
                 max_text_bytes |-> TextCap, follow_symlinks |-> FALSE, instance |-> 0]
    /\ opts \in [max_files : {<<>>, <<1>>}, concurrency : 1..MaxConcurrency,
                 max_sample_errors : {MaxSample}, max_sample_candidates : {MaxSample},
                 max_sample_skipped : {MaxSample}]
    /\ fault \in RunFaults
    /\ db \in {[enabled |-> TRUE, reason |-> <<>>, table |-> EmptyTable, lock |-> 0],
               [enabled |-> FALSE, reason |-> <<"LanceDB init failed">>, table |-> EmptyTable, lock |-> 0]}
    /\ InitCommon

Init ==
    /\ fs = RunFs
    /\ roots = RunRoots
    /\ policy = [exclude |-> {}, allow_extensions |-> {"txt"}, max_file_size_bytes |-> FileSizeCap,
                 max_text_bytes |-> TextCap, follow_symlinks |-> FALSE, instance |-> 0]
    /\ opts \in [max_files : {<<>>} \cup {<<m>> : m \in 1..MaxMaxFiles}, concurrency : 0..MaxConcurrency,
                 max_sample_errors : {MaxSample}, max_sample_candidates : {MaxSample},
                 max_sample_skipped : {MaxSample}]
    /\ fault \in RunFaults
    /\ db = [enabled |-> TRUE, reason |-> <<>>, table |-> EmptyTable, lock |-> 0]
    /\ InitCommon

\* The tree of the scans: r holds x and y, x holds z when it is a directory; y and z
\* are eligible files and x is any kind of entry.
ScanEntriesX ==
    {[type |-> ty[1], target |-> ty[2], statOk |-> so, readDir |-> ty[3], ext |-> e, size |-> sz,
      children |-> IF ty[1] = "dir" THEN {"r/x/z"} ELSE {}, content |-> <<"a">>, mtime |-> 1] :
        ty \in {<<"file", None, None>>, <<"other", None, None>>, <<"dir", None, "ok">>,
                <<"dir", None, "fail">>, <<"symlink", "file", None>>, <<"symlink", "dir", None>>},
        so \in BOOLEAN,
        e \in {"txt", "TXT", "pdf", None},
        sz \in {FileSizeCap - 1, FileSizeCap, FileSizeCap + 1}}

InitScan ==
    /\ \E x \in ScanEntriesX :
          fs = [p \in {"r", "r/x", "r/x/z", "r/y"} |->
                    CASE p = "r" -> DirEntry({"r/x", "r/y"})
                      [] p = "r/x" -> x
                      [] OTHER -> FileEntry("txt", 1, <<"a">>)]
    /\ roots = <<"r">>
    /\ policy \in [exclude : {{}, {"r/x"}}, allow_extensions : {{"txt"}},
                   max_file_size_bytes : {FileSizeCap}, max_text_bytes : {TextCap},
                   follow_symlinks : BOOLEAN, instance : {0}]
    /\ opts \in {[max_files |-> mc[1], concurrency |-> mc[2], max_sample_errors |-> MaxSample,
                  max_sample_candidates |-> MaxSample, max_sample_skipped |-> MaxSample] :
                    mc \in {<< <<>>, 1 >>, << <<1>>, 0 >>}}
    /\ fault = [p \in DOMAIN fs |-> None]
    /\ db = [enabled |-> TRUE, reason |-> <<>>, table |-> EmptyTable, lock |-> 0]
    /\ InitCommon

\* The tree of the previews: as the tree of the scans, with y a txt or a pdf file, and
\* each sample cap 0 or more.
PreviewEntriesX ==
    {x \in ScanEntriesX : x.ext \in {"txt", "pdf"} /\ x.size \in {FileSizeCap, FileSizeCap + 1}}

InitPreview ==
    /\ \E x \in PreviewEntriesX, yext \in {"txt", "pdf"} :
          fs = [p \in {"r", "r/x", "r/x/z", "r/y"} |->
                    CASE p = "r" -> DirEntry({"r/x", "r/y"})
                      [] p = "r/x" -> x
                      [] p = "r/y" -> FileEntry(yext, 1, <<"a">>)
                      [] OTHER -> FileEntry("txt", 1, <<"a">>)]
    /\ roots = <<"r">>
    /\ policy \in [exclude : {{}, {"r/x"}}, allow_extensions : {{"txt"}},
                   max_file_size_bytes : {FileSizeCap}, max_text_bytes : {TextCap},
                   follow_symlinks : BOOLEAN, instance : {0}]
    /\ opts \in [max_files : {<<>>}, concurrency : {1}, max_sample_errors : {MaxSample},
                 max_sample_candidates : 0..MaxSample, max_sample_skipped : 0..MaxSample]
    /\ fault = [p \in DOMAIN fs |-> None]
    /\ db = [enabled |-> TRUE, reason |-> <<>>, table |-> EmptyTable, lock |-> 0]
    /\ InitCommon

\* The tree of the runs with errors of both kinds: r holds x and y, x is a file or a
\* directory holding z, its stat or its read_dir may fail, any file may fail to ingest, and
\* max_sample_errors is 0 or more.
ErrorEntriesX ==
    {x \in ScanEntriesX : /\ x.type \in {"file", "dir"}
                          /\ x.ext = "txt" /\ x.size = FileSizeCap}

InitErrors ==
    /\ \E x \in ErrorEntriesX :
          fs = [p \in {"r", "r/x", "r/x/z", "r/y"} |->
                    CASE p = "r" -> DirEntry({"r/x", "r/y"})
                      [] p = "r/x" -> x
                      [] OTHER -> FileEntry("txt", 1, <<"a">>)]
    /\ roots = <<"r">>
    /\ policy = [exclude |-> {}, allow_extensions |-> {"txt"}, max_file_size_bytes |-> FileSizeCap,
                 max_text_bytes |-> TextCap, follow_symlinks |-> FALSE, instance |-> 0]
    /\ opts \in {[max_files |-> mc[1], concurrency |-> mc[2], max_sample_errors |-> e,
                  max_sample_candidates |-> MaxSample, max_sample_skipped |-> MaxSample] :
                    mc \in {<< <<>>, 1 >>, << <<1>>, 0 >>}, e \in 0..MaxSample}
    /\ \E kx \in {None, "extract"}, ky \in {None} \cup FaultKinds :
          fault = [p \in DOMAIN fs |-> IF p = "r/y" THEN ky ELSE kx]
    /\ db = [enabled |-> TRUE, reason |-> <<>>, table |-> EmptyTable, lock |-> 0]
    /\ InitCommon

\* The configured roots of the runs over r: one root, a root given twice, and a root
\* together with a directory inside it (set_index_roots stores the list as it is given).
RootLists == {<<"r">>, <<"r", "r">>, <<"r", "r/x">>, <<"r/x", "r">>}

\* A preview and an index run over the tree r -> {r/x -> {r/x/z}, r/y} of eligible files.
InitRoots ==
    /\ fs = [p \in {"r", "r/x", "r/x/z", "r/y"} |->
                CASE p = "r" -> DirEntry({"r/x", "r/y"})
                  [] p = "r/x" -> DirEntry({"r/x/z"})
                  [] OTHER -> FileEntry("txt", 1, <<"a">>)]
    /\ roots \in RootLists
    /\ policy = [exclude |-> {}, allow_extensions |-> {"txt"}, max_file_size_bytes |-> FileSizeCap,
                 max_text_bytes |-> TextCap, follow_symlinks |-> FALSE, instance |-> 0]
    /\ opts \in {[max_files |-> mc[1], concurrency |-> mc[2], max_sample_errors |-> MaxSample,
                  max_sample_candidates |-> MaxSample, max_sample_skipped |-> MaxSample] :
                    mc \in {<< <<>>, 1 >>, << <<1>>, 0 >>}}
    /\ fault = [p \in DOMAIN fs |-> None]
    /\ db = [enabled |-> TRUE, reason |-> <<>>, table |-> EmptyTable, lock |-> 0]
    /\ InitCommon

\* A call of silo_preview_index and a call of silo_set_index_roots about to be made on
\* one AppState, over the tree of the runs with errors.
InitLocks ==
    /\ \E x \in ErrorEntriesX :
          fs = [p \in {"r", "r/x", "r/x/z", "r/y"} |->
                    CASE p = "r" -> DirEntry({"r/x", "r/y"})
                      [] p = "r/x" -> x
                      [] OTHER -> FileEntry("txt", 1, <<"a">>)]
    /\ roots = <<"r">>
    /\ policy = [exclude |-> {}, allow_extensions |-> {"txt"}, max_file_size_bytes |-> FileSizeCap,
                 max_text_bytes |-> TextCap, follow_symlinks |-> FALSE, instance |-> 0]
    /\ opts = [max_files |-> <<>>, concurrency |-> 1, max_sample_errors |-> MaxSample,
               max_sample_candidates |-> MaxSample, max_sample_skipped |-> MaxSample]
    /\ fault = [p \in DOMAIN fs |-> None]
    /\ db = [enabled |-> TRUE, reason |-> <<>>, table |-> EmptyTable, lock |-> 0]
    /\ permits = SemaphorePermits(opts.concurrency)
    /\ phase = "call"
    /\ app = AppIdle
    /\ pv = PreviewStart(roots)
    /\ ix = IndexStart(roots)
    /\ tasks = <<>>
    /\ notified = <<>>
    /\ hist = [lastGood |-> [p \in DOMAIN fs |-> {}], first |-> <<>>,
               last |-> [p \in DOMAIN fs |-> <<>>], prev |-> [p \in DOMAIN fs |-> <<>>],
               calls |-> 0, ret |-> <<>>]

\* The tree of the scans with enumeration errors: as above, and read_dir on r or on x
\* may open and then fail in next_entry before every entry has been returned.
WalkEntriesX ==
    ScanEntriesX \cup {[x EXCEPT !.readDir = "partial"] : x \in {y \in ScanEntriesX : y.type = "dir"}}

InitWalk ==
    /\ \E x \in WalkEntriesX, rd \in {"ok", "partial"} :
          fs = [p \in {"r", "r/x", "r/x/z", "r/y"} |->
                    CASE p = "r" -> [DirEntry({"r/x", "r/y"}) EXCEPT !.readDir = rd]
                      [] p = "r/x" -> x
                      [] OTHER -> FileEntry("txt", 1, <<"a">>)]
    /\ roots = <<"r">>
    /\ policy \in [exclude : {{}, {"r/x"}}, allow_extensions : {{"txt"}},
                   max_file_size_bytes : {FileSizeCap}, max_text_bytes : {TextCap},
                   follow_symlinks : {FALSE}, instance : {0}]
    /\ opts \in {[max_files |-> mc[1], concurrency |-> mc[2], max_sample_errors |-> MaxSample,
                  max_sample_candidates |-> MaxSample, max_sample_skipped |-> MaxSample] :
                    mc \in {<< <<>>, 1 >>, << <<1>>, 0 >>}}
    /\ fault = [p \in DOMAIN fs |-> None]
    /\ db = [enabled |-> TRUE, reason |-> <<>>, table |-> EmptyTable, lock |-> 0]
    /\ InitCommon

\* The reasons a store is disabled with: the build without the lancedb feature
\* (Database::new), and the Display of the DbError that main passes to Database::disabled.
DisabledReasons ==
    {"LanceDB is not enabled. Rebuild with --features lancedb.", "I/O error: {0}", "lancedb error: {0}"}

\* One file and a store, enabled or disabled, served to calls of a client.
InitCalls ==
    /\ fs = [p \in {"r/x"} |-> FileEntry("txt", 1, <<"a">>)]
    /\ roots = <<"r">>
    /\ policy = [exclude |-> {}, allow_extensions |-> {"txt"}, max_file_size_bytes |-> FileSizeCap,
                 max_text_bytes |-> TextCap, follow_symlinks |-> FALSE, instance |-> 0]
    /\ opts = [max_files |-> <<>>, concurrency |-> 1, max_sample_errors |-> MaxSample,
               max_sample_candidates |-> MaxSample, max_sample_skipped |-> MaxSample]
    /\ fault = [p \in DOMAIN fs |-> None]
    /\ db \in {[enabled |-> TRUE, reason |-> <<>>, table |-> EmptyTable, lock |-> 0]}
              \cup {[enabled |-> FALSE, reason |-> <<r>>, table |-> EmptyTable, lock |-> 0] :
                        r \in DisabledReasons}
    /\ permits = SemaphorePermits(opts.concurrency)
    /\ phase = "serve"
    /\ app = AppIdle
    /\ pv = PreviewStart(roots)
    /\ ix = IndexStart(roots)
    /\ tasks = <<>>
    /\ notified = <<>>
    /\ hist = [lastGood |-> [p \in DOMAIN fs |-> {}], first |-> <<>>,
               last |-> [p \in DOMAIN fs |-> <<>>], prev |-> [p \in DOMAIN fs |-> <<>>],
               calls |-> 0, ret |-> <<>>]

\* The store as a client finds it: a table that earlier calls of replace_file_chunks have
\* filled for some of three paths, one of which is another followed by a quote. Which
\* stage of a replace fails for a path, if any, is the environment's choice.
FramePaths == {"r/x", "r/x'", "r/y"}

FrameRows(p) == BuildRows(p, <<1>>, <<1>>, <<Blake3(<<"a">>)>>,
                          chunk_by_whitespace_tokens(<<"a">>, CfgChunkTokens, CfgChunkOverlap))

InitFrame ==
    /\ fs = [p \in FramePaths |-> FileEntry("txt", 1, <<"a">>)]
    /\ roots = <<"r">>
    /\ policy = [exclude |-> {}, allow_extensions |-> {"txt"}, max_file_size_bytes |-> FileSizeCap,
                 max_text_bytes |-> TextCap, follow_symlinks |-> FALSE, instance |-> 0]
    /\ opts = [max_files |-> <<>>, concurrency |-> 1, max_sample_errors |-> MaxSample,
               max_sample_candidates |-> MaxSample, max_sample_skipped |-> MaxSample]
    /\ fault \in [FramePaths -> {None, "delete", "add"}]
    /\ \E filled \in SUBSET FramePaths :
          db = [enabled |-> TRUE, reason |-> <<>>, lock |-> 0,
                table |-> add_rows(EmptyTable, UNION {FrameRows(p) : p \in filled})]
    /\ permits = SemaphorePermits(opts.concurrency)
    /\ phase = "serve"
    /\ app = AppIdle
    /\ pv = PreviewStart(roots)
    /\ ix = IndexStart(roots)
    /\ tasks = <<>>
    /\ notified = <<>>
    /\ hist = [lastGood |-> [p \in DOMAIN fs |-> {}], first |-> <<>>,
               last |-> [p \in DOMAIN fs |-> <<>>], prev |-> [p \in DOMAIN fs |-> <<>>],
               calls |-> 0, ret |-> <<>>]

\* The scenario tree: r holds a.txt (r/x) with the text "a b c d e" and b.pdf (r/y).
\* The configuration allows txt only and sets chunk_tokens = 3, chunk_overlap_tokens = 1;
\* a.txt ingests without failure, or fails at one stage.
ScenarioText == <<"a", " ", "b", " ", "c", " ", "d", " ", "e">>

InitScenario ==
    /\ fs = [p \in {"r", "r/x", "r/y"} |->
                CASE p = "r" -> DirEntry({"r/x", "r/y"})
                  [] p = "r/x" -> FileEntry("txt", Len(ScenarioText), ScenarioText)
                  [] OTHER -> FileEntry("pdf", 1, <<"a">>)]
    /\ roots = <<"r">>
    /\ policy \in [exclude : {{}}, allow_extensions : {{"txt"}},
                   max_file_size_bytes : {Len(ScenarioText)}, max_text_bytes : {Len(ScenarioText)},
                   follow_symlinks : BOOLEAN, instance : {0},
                   chunk_tokens : {3}, chunk_overlap_tokens : {1}]
    /\ opts \in {[max_files |-> mc[1], concurrency |-> mc[2], max_sample_errors |-> MaxSample,
                  max_sample_candidates |-> MaxSample, max_sample_skipped |-> MaxSample] :
                    mc \in {<< <<>>, 1 >>, << <<1>>, 0 >>}}
    /\ fault \in {[p \in DOMAIN fs |-> IF p = "r/x" THEN k ELSE None] : k \in {None} \cup FaultKinds}
    /\ db = [enabled |-> TRUE, reason |-> <<>>, table |-> EmptyTable, lock |-> 0]
    /\ InitCommon

\* The contents given to the extractor: every sequence of at most MaxBytes bytes, each
\* an ASCII letter, a space, or the lead or the continuation byte of a two-byte character.
RECURSIVE ByteSeqs(_)
ByteSeqs(n) ==
    IF n = 0 THEN {<<>>}
    ELSE LET shorter == ByteSeqs(n - 1)
         IN shorter \cup {Append(b, c) : b \in {x \in shorter : Len(x) = n - 1}, c \in {"a", "L", "C"}}

\* An extractor call about to be made, with arguments of every shape.
InitExtract ==
    /\ fs = [p \in {"r/x"} |-> FileEntry("txt", 1, <<"a">>)]
    /\ roots = <<"r">>
    /\ policy = [exclude |-> {}, allow_extensions |-> {"txt"}, max_file_size_bytes |-> FileSizeCap,
                 max_text_bytes |-> TextCap, follow_symlinks |-> FALSE, instance |-> 0]
    /\ opts = [max_files |-> <<>>, concurrency |-> 1, max_sample_errors |-> MaxSample,
               max_sample_candidates |-> MaxSample, max_sample_skipped |-> MaxSample]
    /\ fault = [p \in DOMAIN fs |-> None]
    /\ db = [enabled |-> TRUE, reason |-> <<>>, table |-> EmptyTable, lock |-> 0]
    /\ permits = SemaphorePermits(opts.concurrency)
    /\ phase = "serve"
    /\ app = AppIdle
    /\ pv = PreviewStart(roots)
    /\ ix = IndexStart(roots)
    /\ tasks = <<>>
    /\ notified = <<>>
    /\ \E bytes \in ByteSeqs(MaxBytes), m \in 0..(MaxBytes + 1),
          k \in {<<"txt", "ok", "ok">>, <<"txt", "failed", "ok">>, <<None, "ok", "ok">>,
                 <<"PDF", "ok", "ok">>, <<"pdf", "ok", "spawn_failed">>, <<"pdf", "ok", "exit_failure">>} :
          hist = [lastGood |-> [p \in DOMAIN fs |-> {}], first |-> <<>>,
                  last |-> [p \in DOMAIN fs |-> <<>>], prev |-> [p \in DOMAIN fs |-> <<>>],
                  calls |-> 0,
                  ret |-> <<[op |-> "extract_args", ext |-> k[1], read |-> k[2], run |-> k[3],
                             bytes |-> bytes, max_text_bytes |-> m,
                             res |-> [ok |-> FALSE, kind |-> "", text |-> <<>>, truncated |-> FALSE,
                                      msg |-> ""]]>>]

\* The texts given to the chunker: n one-letter tokens, separated by single spaces
\* ("plain"), or with a leading space, two spaces between tokens and a trailing space.
Letters == <<"a", "b", "c", "d", "e", "f", "g", "h">>

TokensOf(n) == [i \in 1..n |-> <<Letters[i]>>]

RECURSIVE JoinPadded(_)
JoinPadded(n) == IF n = 1 THEN <<Letters[1]>> ELSE JoinPadded(n - 1) \o <<" ", " ", Letters[n]>>

RECURSIVE TextOf(_, _)
TextOf(n, padded) ==
    IF n = 0 THEN (IF padded THEN <<" ">> ELSE <<>>)
    ELSE IF n = 1 THEN (IF padded THEN <<" ", Letters[1], " ">> ELSE <<Letters[1]>>)
    ELSE LET front == TextOf(n - 1, FALSE)
         IN IF padded
            THEN <<" ">> \o JoinPadded(n) \o <<" ">>
            ELSE front \o <<" ", Letters[n]>>

\* A chunker call about to be made, with arguments of every shape.
InitChunk ==
    /\ fs = [p \in {"r/x"} |-> FileEntry("txt", 1, <<"a">>)]
    /\ roots = <<"r">>
    /\ policy = [exclude |-> {}, allow_extensions |-> {"txt"}, max_file_size_bytes |-> FileSizeCap,
                 max_text_bytes |-> TextCap, follow_symlinks |-> FALSE, instance |-> 0]
    /\ opts = [max_files |-> <<>>, concurrency |-> 1, max_sample_errors |-> MaxSample,
               max_sample_candidates |-> MaxSample, max_sample_skipped |-> MaxSample]
    /\ fault = [p \in DOMAIN fs |-> None]
    /\ db = [enabled |-> TRUE, reason |-> <<>>, table |-> EmptyTable, lock |-> 0]
    /\ permits = SemaphorePermits(opts.concurrency)
    /\ phase = "serve"
    /\ app = AppIdle
    /\ pv = PreviewStart(roots)
    /\ ix = IndexStart(roots)
    /\ tasks = <<>>
    /\ notified = <<>>
    /\ \E n \in 0..MaxTokens, padded \in BOOLEAN, w \in 0..MaxWindow, o \in 0..MaxWindow :
          hist = [lastGood |-> [p \in DOMAIN fs |-> {}], first |-> <<>>,
                  last |-> [p \in DOMAIN fs |-> <<>>], prev |-> [p \in DOMAIN fs |-> <<>>],
                  calls |-> 0,
                  ret |-> <<[op |-> "chunk_args", tokens |-> TokensOf(n), text |-> TextOf(n, padded),
                             w |-> w, o |-> o, chunks |-> <<>>]>>]

\* Two files served to direct ingestion calls; no scan and no index run.
StoreContents == {<<"a">>, <<"a", " ", "b", " ", "c">>}

InitStore ==
    /\ fs \in [{"r/x", "r/y"} -> {FileEntry("txt", 1, c) : c \in StoreContents}]
    /\ roots = <<"r">>
    /\ policy = [exclude |-> {}, allow_extensions |-> {"txt"}, max_file_size_bytes |-> FileSizeCap,
                 max_text_bytes |-> TextCap, follow_symlinks |-> FALSE, instance |-> 0]
    /\ opts = [max_files |-> <<>>, concurrency |-> 1, max_sample_errors |-> MaxSample,
               max_sample_candidates |-> MaxSample, max_sample_skipped |-> MaxSample]
    /\ fault = [p \in DOMAIN fs |-> None]
    /\ db = [enabled |-> TRUE, reason |-> <<>>, table |-> EmptyTable, lock |-> 0]
    /\ permits = SemaphorePermits(opts.concurrency)
    /\ phase = "serve"
    /\ app = AppIdle
    /\ pv = PreviewStart(roots)
    /\ ix = IndexStart(roots)
    /\ tasks = <<>>
    /\ notified = <<>>
    /\ hist = [lastGood |-> [p \in DOMAIN fs |-> {}], first |-> <<>>,
               last |-> [p \in DOMAIN fs |-> <<>>], prev |-> [p \in DOMAIN fs |-> <<>>],
               calls |-> 0, ret |-> <<>>]

\* The files a client names in silo_ingest_file: r/y is eligible; r/x is a txt or an md
\* file, within the size cap or above it, and excluded by the policy or not.
IngestContents == {<<"a">>, <<"a", " ", "b">>}

InitIngest ==
    /\ \E e \in {"txt", "md"}, c \in IngestContents :
          fs = [p \in {"r/x", "r/y"} |->
                    IF p = "r/x" THEN FileEntry(e, Len(c), c) ELSE FileEntry("txt", 1, <<"a">>)]
    /\ roots = <<"r">>
    /\ policy \in [exclude : {{}, {"r/x"}}, allow_extensions : {{"txt"}},
                   max_file_size_bytes : {FileSizeCap}, max_text_bytes : {TextCap},
                   follow_symlinks : {FALSE}, instance : {0}]
    /\ opts = [max_files |-> <<>>, concurrency |-> 1, max_sample_errors |-> MaxSample,
               max_sample_candidates |-> MaxSample, max_sample_skipped |-> MaxSample]
    /\ fault = [p \in DOMAIN fs |-> None]
    /\ db = [enabled |-> TRUE, reason |-> <<>>, table |-> EmptyTable, lock |-> 0]
    /\ permits = SemaphorePermits(opts.concurrency)
    /\ phase = "serve"
    /\ app = AppIdle
    /\ pv = PreviewStart(roots)
    /\ ix = IndexStart(roots)
    /\ tasks = <<>>
    /\ notified = <<>>
    /\ hist = [lastGood |-> [p \in DOMAIN fs |-> {}], first |-> <<>>,
               last |-> [p \in DOMAIN fs |-> <<>>], prev |-> [p \in DOMAIN fs |-> <<>>],
               calls |-> 0, ret |-> <<>>]

\* silo_preview_index is called again on the same tree, roots, policy and options.
\* History: hist.first keeps the samples the first call returned.
PreviewAgain ==
    /\ phase = "index" /\ pv.pc = "done" /\ hist.first = <<>>
    /\ hist' = [hist EXCEPT !.first = <<[sample_candidates |-> pv.sample_candidates,
                                         sample_skipped |-> pv.sample_skipped,
                                         candidates |-> pv.candidates,
                                         skipped |-> pv.skipped]>>]
    /\ pv' = PreviewStart(roots)
    /\ phase' = "preview"
    /\ app' = AppInPreview
    /\ UNCHANGED <<fs, roots, policy, opts, fault, ix, permits, tasks, notified, db>>

(***************************************************************************)
(* tools.rs: silo_ingest_file, and the environment of the store runs.      *)
(***************************************************************************)
\* call_tool("silo_ingest_file"): process_file on the given path with the configured
\* chunk parameters. Which stage fails for the path, if any, is the environment's choice.
IngestFileCall(path, k) ==
    /\ phase = "serve"
    /\ Len(tasks) < MaxCalls
    /\ tasks' = Append(tasks, NewTask(path, FALSE, CfgChunkTokens, CfgChunkOverlap))
    /\ fault' = [fault EXCEPT ![path] = k]
    /\ UNCHANGED <<fs, roots, policy, app, opts, phase, pv, ix, permits, notified, db, hist>>

\* The user rewrites a file (possibly with the same content): its mtime changes.
EditFile(path, content) ==
    /\ phase = "serve"
    /\ fs[path].mtime = 1
    /\ fs' = [fs EXCEPT ![path].content = content, ![path].mtime = 2]
    /\ UNCHANGED <<roots, policy, app, opts, fault, phase, pv, ix, permits, tasks, notified, db, hist>>

(***************************************************************************)
(* state.rs: AppState::set_index_roots, running beside a scan.             *)
(***************************************************************************)
\* A variant: the slot is written without waiting for the readers.
WriteLockIgnored(a) == TRUE

\* fs_policy.write().await returns the guard only while no read guard exists.
WriteLockFree(a) == a.readers = 0

\* set_index_roots up to and including save_config: the write guard on config is taken
\* and kept, the roots of the filesystem source are replaced (here by the same roots)
\* and the configuration is saved. (When save_config fails the call returns the error
\* and nothing has changed.)
SetRootsBegin ==
    /\ app.set_pc = "idle" /\ ~app.cfg_writer
    /\ app' = [app EXCEPT !.cfg_writer = TRUE, !.set_pc = "swap"]
    /\ UNCHANGED <<fs, roots, policy, opts, fault, phase, pv, ix, permits, tasks, notified, db, hist>>

\* set_index_roots: compile_from_config, then `*self.fs_policy.write().await = compiled`:
\* a new policy instance compiled from the same globs replaces the old one in one
\* assignment. The call goes on to get_config_json, which waits for a read guard on
\* config while the call itself still holds the write guard.
SetRootsSwap ==
    /\ app.set_pc = "swap"
    /\ WriteLockFree(app)
    /\ policy' = [policy EXCEPT !.instance = @ + 1]
    /\ app' = [app EXCEPT !.set_pc = "get_config"]
    /\ UNCHANGED <<fs, roots, opts, fault, phase, pv, ix, permits, tasks, notified, db, hist>>

\* set_index_roots: save_config or compile_from_config fails and `?` returns the error;
\* the write guard on config is dropped.
SetRootsFails ==
    /\ app.set_pc = "swap"
    /\ app' = [app EXCEPT !.set_pc = "failed", !.cfg_writer = FALSE]
    /\ UNCHANGED <<fs, roots, policy, opts, fault, phase, pv, ix, permits, tasks, notified, db, hist>>

\* call_tool("silo_preview_index"): `state.fs_policy.read().await`; the guard is kept
\* until the handler returns. (The write guard on fs_policy exists only inside the
\* assignment of set_index_roots, so the read is never refused here.)
PreviewCallBegin ==
    /\ phase = "call" /\ app.preview_pc = "idle"
    /\ app' = [app EXCEPT !.readers = @ + 1, !.preview_pc = "roots"]
    /\ UNCHANGED <<fs, roots, policy, opts, fault, phase, pv, ix, permits, tasks, notified, db, hist>>

\* config.read().await returns the guard only while no write guard on config exists.
ConfigReadFree(a) == ~a.cfg_writer

\* `self.config.read().await` of a caller: filesystem_roots called by the preview handler
\* (which then starts preview_index), or get_config_json called at the end of
\* set_index_roots (which then returns and drops its guards). The read guard itself is
\* dropped when filesystem_roots / get_config_json returns.
ConfigRead(who) ==
    /\ ConfigReadFree(app)
    /\ \/ /\ who = "preview" /\ app.preview_pc = "roots"
          /\ app' = [app EXCEPT !.preview_pc = "scan"]
          /\ phase' = "preview"
       \/ /\ who = "set_index_roots" /\ app.set_pc = "get_config"
          /\ app' = [app EXCEPT !.set_pc = "returned", !.cfg_writer = FALSE]
          /\ UNCHANGED phase
    /\ UNCHANGED <<fs, roots, policy, opts, fault, pv, ix, permits, tasks, notified, db, hist>>

(***************************************************************************)
(* database.rs: the operations of Database called by a client of the       *)
(* library. History: hist.calls counts the calls, hist.ret is what the     *)
(* last one returned.                                                      *)
(***************************************************************************)
Return(op, ok, hits, msg, n, len, embedded) ==
    [op |-> op, ok |-> ok, hits |-> hits, msg |-> msg, n |-> n, len |-> len, embedded |-> embedded,
     reason |-> <<>>]

Returned(r) == hist' = [hist EXCEPT !.calls = @ + 1, !.ret = <<r>>]

\* Database::add_document(path, content)
AddDocumentCall(path, content) ==
    /\ phase = "serve" /\ hist.calls < MaxCalls
    /\ is_enabled(db) => LockFree(db)
    /\ db' = IF is_enabled(db) THEN [db EXCEPT !.table = add_row(@, DocumentRow(path, content))] ELSE db
    /\ Returned(Return("add_document", TRUE, {}, "", 0, 0, FALSE))
    /\ UNCHANGED <<fs, roots, policy, app, opts, fault, phase, pv, ix, permits, tasks, notified>>

\* Database::add_chunk(id, path, chunk_index, start_token, end_token, content, embedding)
AddChunkCall(id, path, content) ==
    /\ phase = "serve" /\ hist.calls < MaxCalls
    /\ is_enabled(db) => LockFree(db)
    /\ db' = IF is_enabled(db)
             THEN [db EXCEPT !.table = add_row(@, ChunkRow(id, path, 0, 0, 1, content))]
             ELSE db
    /\ Returned(Return("add_chunk", TRUE, {}, "", 0, 0, FALSE))
    /\ UNCHANGED <<fs, roots, policy, app, opts, fault, phase, pv, ix, permits, tasks, notified>>

\* Database::search_documents(query)
SearchDocumentsCall ==
    /\ phase = "serve" /\ hist.calls < MaxCalls
    /\ is_enabled(db) => LockFree(db)
    /\ \E hits \in (IF is_enabled(db) THEN search_documents(db.table) ELSE {{}}) :
          Returned(Return("search_documents", TRUE, {r.id : r \in hits}, "", 0, 0, FALSE))
    /\ UNCHANGED <<fs, roots, policy, app, opts, fault, phase, pv, ix, permits, tasks, notified, db>>

\* Database::replace_file_chunks called with the chunks of `text`: on a disabled store it
\* returns Ok at once, otherwise it goes on as the store stage of a task.
ReplaceFileChunksCall(path, text) ==
    /\ phase = "serve" /\ hist.calls < MaxCalls /\ Len(tasks) < MaxCalls
    /\ IF is_enabled(db)
       THEN /\ tasks' = Append(tasks, [NewTask(path, FALSE, CfgChunkTokens, CfgChunkOverlap) EXCEPT
                                          !.st = "lock", !.text = text,
                                          !.file_mtime_epoch_secs = 1, !.file_size_bytes = Len(text)])
            /\ hist' = [hist EXCEPT !.calls = @ + 1]
       ELSE /\ Returned(Return("replace_file_chunks", TRUE, {}, "", 0, 0, FALSE))
            /\ UNCHANGED tasks
    /\ UNCHANGED <<fs, roots, policy, app, opts, fault, phase, pv, ix, permits, notified, db>>

(***************************************************************************)
(* chunk.rs: chunk_by_whitespace_tokens called on its own.                 *)
(***************************************************************************)
\* The call recorded in hist.ret is made: its result replaces its arguments.
ChunkCall ==
    /\ phase = "serve" /\ hist.ret # <<>> /\ hist.ret[1].op = "chunk_args"
    /\ LET a == hist.ret[1]
       IN hist' = [hist EXCEPT
               !.calls = @ + 1,
               !.ret = <<[a EXCEPT !.op = "chunk",
                                   !.chunks = chunk_by_whitespace_tokens(a.text, a.w, a.o)]>>]
    /\ UNCHANGED <<fs, roots, policy, app, opts, fault, phase, pv, ix, permits, tasks, notified, db>>

(***************************************************************************)
(* extract.rs: extract_text called on its own.                             *)
(***************************************************************************)
\* The call recorded in hist.ret is made: its result is added to its arguments.
ExtractCall ==
    /\ phase = "serve" /\ hist.ret # <<>> /\ hist.ret[1].op = "extract_args"
    /\ LET a == hist.ret[1]
       IN hist' = [hist EXCEPT
               !.calls = @ + 1,
               !.ret = <<[a EXCEPT !.op = "extract",
                                   !.res = extract_text(a.ext, a.read, a.run, a.bytes, a.max_text_bytes)]>>]
    /\ UNCHANGED <<fs, roots, policy, app, opts, fault, phase, pv, ix, permits, tasks, notified, db>>

(***************************************************************************)
(* embed.rs: the Embedder trait and its two implementations.               *)
(***************************************************************************)
\* EmbedderKind: NoopEmbedder, and FastEmbedder (feature `embeddings`).
EmbedderKinds == {"noop", "fastembed"}

\* What the backend of an embedder hands back for n texts: NoopEmbedder maps every text
\* to a zero vector; FastEmbedder hands back what fastembed's model.embed returned, an
\* error or some number of vectors that the code does not look at.
BackendOutcomes(kind, n) ==
    IF kind = "noop" THEN {<<"ok", n>>}
    ELSE {<<"err", 0>>} \cup {<<"ok", m>> : m \in 0..(n + 1)}

\* Embedder::embed_texts on n texts with backend outcome `out`: Ok(vectors) or Err; the
\* result is <<"ok", number of vectors>> or <<"err", 0>>.
embed_texts(n, out) == out

\* Embedder::embed_query: embed_texts(vec![query])?, then out.pop() or the error
\* "embedder returned no vectors".
embed_query(out) ==
    LET r == embed_texts(1, out)
    IN IF r[1] = "err" \/ r[2] = 0 THEN <<"err", 0>> ELSE <<"ok", 1>>

\* A client calls embed_texts with n texts.
EmbedTextsCall(kind, n) ==
    /\ phase = "serve" /\ hist.calls < MaxCalls
    /\ \E out \in BackendOutcomes(kind, n) :
          LET r == embed_texts(n, out)
          IN Returned(Return("embed_texts", r[1] = "ok", {}, "", n, r[2], TRUE))
    /\ UNCHANGED <<fs, roots, policy, app, opts, fault, phase, pv, ix, permits, tasks, notified, db>>

\* A client calls embed_query; `len` keeps the number of vectors embed_texts returned.
EmbedQueryCall(kind) ==
    /\ phase = "serve" /\ hist.calls < MaxCalls
    /\ \E out \in BackendOutcomes(kind, 1) :
          Returned(Return("embed_query", embed_query(out)[1] = "ok", {}, "", 1, embed_texts(1, out)[2], TRUE))
    /\ UNCHANGED <<fs, roots, policy, app, opts, fault, phase, pv, ix, permits, tasks, notified, db>>

(***************************************************************************)
(* tools.rs: silo_search, and api.rs: SiloApp::search.                     *)
(***************************************************************************)
\* silo_search(state, query, top_k)
SiloSearchCall(kind) ==
    /\ phase = "serve" /\ hist.calls < MaxCalls
    /\ is_enabled(db) => LockFree(db)
    /\ IF ~is_enabled(db)
       THEN Returned([Return("silo_search", FALSE, {}, "Knowledge base is disabled: {reason}", 1, 0, FALSE)
                        EXCEPT !.reason = disabled_reason(db)])
       ELSE \E out \in BackendOutcomes(kind, 1) :
               IF embed_query(out)[1] = "err"
               THEN Returned(Return("silo_search", FALSE, {}, "Embedding failed: {e}", 1, 0, TRUE))
               ELSE \E hits \in search_chunks_by_vector(db) :
                       Returned(Return("silo_search", TRUE, hits, "", 1, 1, TRUE))
    /\ UNCHANGED <<fs, roots, policy, app, opts, fault, phase, pv, ix, permits, tasks, notified, db>>

\* SiloApp::search(query, top_k)
ApiSearchCall(kind) ==
    /\ phase = "serve" /\ hist.calls < MaxCalls
    /\ is_enabled(db) => LockFree(db)
    /\ \E out \in BackendOutcomes(kind, 1) :
          IF embed_query(out)[1] = "err"
          THEN Returned(Return("SiloApp::search", FALSE, {}, "Embedding failed: {e}", 1, 0, TRUE))
          ELSE \E hits \in search_chunks_by_vector(db) :
                  Returned(Return("SiloApp::search", TRUE, hits, "", 1, 1, TRUE))
    /\ UNCHANGED <<fs, roots, policy, app, opts, fault, phase, pv, ix, permits, tasks, notified, db>>

\* A second index run over the same tree with the same options: the summary of the
\* first run is kept for comparison.
Rerun ==
    /\ phase = "finished" /\ hist.first = <<>>
    /\ hist' = [hist EXCEPT !.first = <<Summary(ix)>>]
    /\ ix' = IndexStart(roots)
    /\ tasks' = <<>>
    /\ phase' = "index"
    /\ app' = [app EXCEPT !.run_policy = <<policy>>]
    /\ UNCHANGED <<fs, roots, policy, opts, fault, pv, permits, notified, db>>

(***************************************************************************)
(* Specifications.                                                         *)
(***************************************************************************)
Next ==
    \/ PreviewVisit \/ PreviewReadDir \/ PreviewReturn
    \/ IndexLoopEnd \/ IndexBreak \/ IndexVisit \/ IndexReadDir
    \/ IndexAcquire \/ IndexSpawn \/ IndexDrainJoin \/ IndexFinishJoin \/ IndexReturn
    \/ \E t \in 1..Len(tasks) : TaskExtract(t) \/ TaskEmbed(t) \/ TaskLockDelete(t) \/ TaskAdd(t)

\* A preview followed by one index run over the tree of eligible files.
Spec == Init /\ [][Next]_vars

\* A step of the coordinator (the future of preview_index, then of index_roots).
CoordinatorStep ==
    \/ PreviewVisit \/ PreviewReadDir \/ PreviewReturn
    \/ IndexLoopEnd \/ IndexBreak \/ IndexVisit \/ IndexReadDir
    \/ IndexAcquire \/ IndexSpawn \/ IndexDrainJoin \/ IndexFinishJoin \/ IndexReturn

\* A step of the spawned task t.
TaskStep(t) ==
    /\ t \in 1..Len(tasks)
    /\ TaskExtract(t) \/ TaskEmbed(t) \/ TaskLockDelete(t) \/ TaskAdd(t)

\* The runtime polls every future that can make progress: the coordinator and each
\* spawned task take their next step when it stays enabled.
Fairness == WF_vars(CoordinatorStep) /\ \A t \in 1..NumFiles : WF_vars(TaskStep(t))

\* The handler of silo_preview_index and one call of set_index_roots, side by side.
PreviewHandlerStep ==
    \/ PreviewCallBegin \/ ConfigRead("preview")
    \/ PreviewVisit \/ PreviewReadDir \/ PreviewReturn

SetRootsStep ==
    \/ SetRootsBegin \/ SetRootsFails \/ SetRootsSwap \/ ConfigRead("set_index_roots")

NextLocks ==
    \/ PreviewCallBegin
    \/ \E who \in {"preview", "set_index_roots"} : ConfigRead(who)
    \/ PreviewVisit \/ PreviewReadDir \/ PreviewReturn
    \/ SetRootsBegin \/ SetRootsFails \/ SetRootsSwap

\* Both futures are polled whenever they can make progress.
LockFairness == WF_vars(PreviewHandlerStep) /\ WF_vars(SetRootsStep)

SpecLocks == InitLocks /\ [][NextLocks]_vars /\ LockFairness

\* A preview followed by one index run in which the scan and the ingestions may fail.
SpecErrors == InitErrors /\ [][Next]_vars

\* A preview followed by one index run on an enabled or a disabled store.
SpecStored == InitStored /\ [][Next]_vars

\* A preview and an index run in which the extraction of one file may never terminate.
SpecHang == InitHang /\ [][Next]_vars /\ Fairness

\* A preview followed by one index run over roots that may repeat or be nested.
SpecRoots == InitRoots /\ [][Next]_vars

\* A preview followed by one index run in which every task terminates, fairly scheduled.
SpecLive == Init /\ [][Next]_vars /\ Fairness

\* A preview followed by one index run over the tree with an entry of any kind.
SpecScan == InitScan /\ [][Next]_vars

\* A preview followed by one index run over the tree whose directories may fail while
\* their entries are enumerated.
SpecWalk == InitWalk /\ [][Next]_vars

\* A preview followed by one index run, with a set_index_roots call beside them.
NextPolicy == Next \/ SetRootsBegin \/ SetRootsSwap

SpecPolicy == InitScan /\ [][NextPolicy]_vars

\* A preview followed by two index runs over the tree of eligible files.
NextRerun == Next \/ Rerun

SpecRerun == Init /\ [][NextRerun]_vars

\* Direct ingestion calls on two files that are edited in between.
NextStore ==
    \/ \E path \in DOMAIN fs, k \in StoreFaultKinds \cup {None} : IngestFileCall(path, k)
    \/ \E path \in DOMAIN fs, c \in StoreContents : EditFile(path, c)
    \/ \E t \in 1..Len(tasks) : TaskExtract(t) \/ TaskEmbed(t) \/ TaskLockDelete(t) \/ TaskAdd(t)

SpecStore == InitStore /\ [][NextStore]_vars

\* Calls of silo_ingest_file under a fixed policy.
NextIngest ==
    \/ \E path \in DOMAIN fs, k \in {None, "extract"} : IngestFileCall(path, k)
    \/ \E t \in 1..Len(tasks) : TaskExtract(t) \/ TaskEmbed(t) \/ TaskLockDelete(t) \/ TaskAdd(t)

SpecIngest == InitIngest /\ [][NextIngest]_vars

\* Calls of a client on one file and a store that is enabled or disabled.
NextCalls ==
    \/ \E path \in DOMAIN fs, k \in {None, "add", "embed_count"} : IngestFileCall(path, k)
    \/ \E path \in DOMAIN fs, c \in StoreContents : EditFile(path, c)
    \/ \E kind \in EmbedderKinds, n \in 0..MaxBatch : EmbedTextsCall(kind, n)
    \/ \E kind \in EmbedderKinds : EmbedQueryCall(kind)
    \/ \E path \in DOMAIN fs, c \in StoreContents : AddDocumentCall(path, c)
    \/ \E path \in DOMAIN fs, c \in StoreContents : AddChunkCall(RowId("k", 0, c), path, c)
    \/ \E path \in DOMAIN fs, c \in StoreContents : ReplaceFileChunksCall(path, c)
    \/ SearchDocumentsCall
    \/ \E kind \in EmbedderKinds : SiloSearchCall(kind)
    \/ \E kind \in EmbedderKinds : ApiSearchCall(kind)
    \/ \E t \in 1..Len(tasks) : TaskExtract(t) \/ TaskEmbed(t) \/ TaskLockDelete(t) \/ TaskAdd(t)

SpecCalls == InitCalls /\ [][NextCalls]_vars

\* Two calls of preview_index, one after the other, on one tree.
NextPreview == PreviewVisit \/ PreviewReadDir \/ PreviewReturn \/ PreviewAgain

SpecPreview == InitPreview /\ [][NextPreview]_vars

\* Calls of replace_file_chunks on a filled table.
NextFrame ==
    \/ \E path \in DOMAIN fs, c \in StoreContents : ReplaceFileChunksCall(path, c)
    \/ \E t \in 1..Len(tasks) : TaskLockDelete(t) \/ TaskAdd(t)

SpecFrame == InitFrame /\ [][NextFrame]_vars

\* A preview followed by one index run over the scenario tree.
SpecScenario == InitScenario /\ [][Next]_vars

\* One call of the extractor on a content and a cap of every shape.
NextExtract == ExtractCall

SpecExtract == InitExtract /\ [][NextExtract]_vars

\* One call of the chunker on a text and parameters of every shape.
NextChunk == ChunkCall

SpecChunk == InitChunk /\ [][NextChunk]_vars

(***************************************************************************)
(* Properties.                                                             *)
(***************************************************************************)
TaskIds == 1..Len(tasks)
Running(t) == tasks[t].st \in {"extract", "embed", "lock", "add"}
NoFaults == \A p \in DOMAIN fault : fault[p] = None

\* Permits in use: one per running task of the JoinSet, plus the one the coordinator
\* holds between acquire_owned and spawn.
PermitsHeld ==
    Cardinality({t \in TaskIds : tasks[t].joinset /\ Running(t)}) + (IF ix.pc = "spawn" THEN 1 ELSE 0)

\* C1: with concurrency C >= 1, at most C permits are ever held (by running tasks, or by
\* the coordinator between acquiring a permit and spawning the task).
C1_PermitBound == opts.concurrency >= 1 => PermitsHeld <= opts.concurrency

C1_Witness == opts.concurrency = 2 /\ PermitsHeld = 2 /\ ix.pc = "acquire"

\* C2: with max_files = M, no more than M per-file tasks are ever started in a run.
C2_MaxFilesCap == opts.max_files # <<>> => Len(tasks) <= opts.max_files[1]

\* The acceptance rule as the specification states it: a regular file (the entry itself,
\* or what a followed symlink points to), not excluded, extension allowed, size within
\* the cap, and not a symlink unless symlinks are followed.
IsRegularFile(p) ==
    fs[p].statOk /\ (fs[p].type = "file" \/ (fs[p].type = "symlink" /\ fs[p].target = "file"))

ShouldAccept(pol, p) ==
    /\ IsRegularFile(p)
    /\ p \notin pol.exclude
    /\ fs[p].ext # None /\ ToAsciiLowercase(fs[p].ext) \in pol.allow_extensions
    /\ fs[p].size <= pol.max_file_size_bytes
    /\ (fs[p].type # "symlink" \/ pol.follow_symlinks)

EligibleFiles == {p \in DOMAIN fs : ShouldAccept(policy, p)}

\* What one ingestion of path p stores when it succeeds.
ExpectedRows(p, w, o) ==
    LET text == extract_plain_text(fs[p].content, policy.max_text_bytes).text
    IN BuildRows(p, <<fs[p].mtime>>, <<Len(fs[p].content)>>, <<Blake3(text)>>,
                 chunk_by_whitespace_tokens(text, w, o))

ExpectedKind(p) == IF fault[p] = None THEN "ok" ELSE IF fault[p] = "panic" THEN "panic" ELSE "err"

\* C4: a failing file does not abort the run: at completion every started task has been
\* joined with the outcome its own file determines, errors counts exactly the failed
\* tasks, ingested the others, the rows of every succeeding file are stored, and without
\* max_files every eligible file was started.
C4_FailureIsolation ==
    ix.pc = "done" =>
        /\ \A t \in TaskIds : tasks[t].st = "joined" /\ tasks[t].res.kind = ExpectedKind(tasks[t].path)
        /\ ix.errors = Cardinality({t \in TaskIds : fault[tasks[t].path] # None})
        /\ ix.ingested = Cardinality({t \in TaskIds : fault[tasks[t].path] = None})
        /\ \A t \in TaskIds : fault[tasks[t].path] = None =>
                RowsOf(db.table, tasks[t].path) = ExpectedRows(tasks[t].path, ChunkTokens, ChunkOverlap)
        /\ opts.max_files = <<>> => {tasks[t].path : t \in TaskIds} = EligibleFiles

C4_Witness ==
    /\ ix.pc = "done" /\ ix.errors = 1 /\ ix.ingested = NumFiles - 1
    /\ \E t \in TaskIds : tasks[t].res.kind = "panic"

\* C5: with max_files unset and no failing file, a completed run reports
\* ingested = N (the number of eligible files) and errors = 0.
C5_AllIngested ==
    (ix.pc = "done" /\ opts.max_files = <<>> /\ NoFaults) =>
        (ix.ingested = Cardinality(EligibleFiles) /\ ix.errors = 0)

C5_Witness ==
    /\ ix.pc = "done" /\ opts.max_files = <<>> /\ NoFaults /\ opts.concurrency = 2
    /\ ix.ingested = NumFiles

\* C3: whenever no replace is in progress, the rows stored for a path are exactly the
\* rows written by the most recent successful ingestion of that path (none if there was
\* no successful ingestion), whatever stage the other ingestions failed at.
C3_ReplaceSet ==
    db.lock = 0 => \A p \in DOMAIN fs : RowsOf(db.table, p) = hist.lastGood[p]

\* C6: a second run over the same tree, policy, options and per-file outcomes ends with
\* the same counts as the first, however the tasks of the two runs were scheduled.
C6_OrderIndependent ==
    (phase = "finished" /\ hist.first # <<>>) => Summary(ix) = hist.first[1]

\* C7: the id of every stored row is the function of its path, chunk index and chunk text,
\* and two successive successful ingestions of a path that read the same text with the same
\* chunk parameters leave the same set of row ids and the same number of rows for the path.
C7_Idempotent ==
    /\ \A r \in DOMAIN db.table : r.id = RowId(r.path, r.chunk_index, r.content)
    /\ \A p \in DOMAIN fs :
           (/\ hist.prev[p] # <<>> /\ hist.last[p] # <<>>
            /\ hist.prev[p][1].text = hist.last[p][1].text
            /\ hist.prev[p][1].params = hist.last[p][1].params)
           => /\ hist.last[p][1].ids = hist.prev[p][1].ids
              /\ hist.last[p][1].n = hist.prev[p][1].n

C7_Witness ==
    \E p \in DOMAIN fs :
        /\ hist.prev[p] # <<>> /\ hist.last[p] # <<>>
        /\ hist.prev[p][1].text = hist.last[p][1].text
        /\ hist.prev[p][1].mtime # hist.last[p][1].mtime
        /\ hist.last[p][1].n = 2
        /\ db.lock = 0 /\ RowCount(db.table, p) = 2

\* C8: an entry is accepted as a candidate, by the preview and by the index run, exactly
\* when the acceptance rule of the specification holds for it.
C8_Acceptance ==
    /\ \A e \in pv.log : (e[2] = "candidate") <=> ShouldAccept(policy, e[1])
    /\ \A e \in ix.log : (e[2] = "candidate") <=> ShouldAccept(policy, e[1])

\* C9: with max_files unset, once both have run on the same tree and policy, the paths
\* index_roots started a task for are the paths preview_index counted as candidates,
\* and scanned_files, scanned_dirs, skipped equal files_seen, dirs_seen, skipped.
C9_PreviewMatchesIndex ==
    (phase = "finished" /\ opts.max_files = <<>>) =>
        /\ {tasks[t].path : t \in TaskIds} = {e[1] : e \in {l \in pv.log : l[2] = "candidate"}}
        /\ Len(tasks) = pv.candidates
        /\ ix.scanned_files = pv.files_seen
        /\ ix.scanned_dirs = pv.dirs_seen
        /\ ix.skipped = pv.skipped

C9_Witness ==
    /\ phase = "finished" /\ opts.max_files = <<>>
    /\ fs["r/x"].size = policy.max_file_size_bytes /\ fs["r/x"].ext = "TXT"
    /\ pv.candidates = 2 /\ \E t \in TaskIds : tasks[t].path = "r/x"

\* The first applicable rule in the order the specification lists: excluded, symlink
\* while not following, stat failure, directory, non-regular, extension, size.
ListedRule(pol, p) ==
    IF p \in pol.exclude THEN "excluded"
    ELSE IF fs[p].type = "symlink" /\ ~pol.follow_symlinks THEN "symlink"
    ELSE IF ~fs[p].statOk THEN "stat_failure"
    ELSE IF fs[p].type = "dir" THEN "dir"
    ELSE IF fs[p].type # "file" THEN "non_regular"
    ELSE IF fs[p].ext = None \/ ToAsciiLowercase(fs[p].ext) \notin pol.allow_extensions THEN "extension"
    ELSE IF fs[p].size > pol.max_file_size_bytes THEN "size"
    ELSE "candidate"

\* The same with the stat failure tested before the symlink rule.
StatFirstRule(pol, p) ==
    IF p \in pol.exclude THEN "excluded"
    ELSE IF ~fs[p].statOk THEN "stat_failure"
    ELSE IF fs[p].type = "symlink" /\ ~pol.follow_symlinks THEN "symlink"
    ELSE IF fs[p].type = "dir" THEN "dir"
    ELSE IF fs[p].type # "file" THEN "non_regular"
    ELSE IF fs[p].ext = None \/ ToAsciiLowercase(fs[p].ext) \notin pol.allow_extensions THEN "extension"
    ELSE IF fs[p].size > pol.max_file_size_bytes THEN "size"
    ELSE "candidate"

\* The rule a logged branch belongs to (an unreadable directory took the directory rule).
RuleOf(branch) == IF branch = "dir_unreadable" THEN "dir" ELSE branch

\* C10 as stated: every visited path gets the outcome of the first applicable rule in
\* the order excluded, symlink, stat failure, directory, non-regular, extension, size,
\* candidate, and every skip the preview reports carries a reason.
C10_ListedOrder ==
    /\ \A e \in pv.log : RuleOf(e[2]) = ListedRule(policy, e[1])
    /\ \A e \in ix.log : RuleOf(e[2]) = ListedRule(policy, e[1])
    /\ \A e \in pv.log : e[2] \in SkipRules => e[3] # ""

\* C10 as amended: every visited path gets the outcome of the first applicable rule in
\* the order excluded, stat failure, symlink while not following, directory, non-regular,
\* extension, size, candidate, in the preview and in the index run alike; every skip the
\* preview reports carries a reason.
C10_StatFirstOrder ==
    /\ \A e \in pv.log : RuleOf(e[2]) = StatFirstRule(policy, e[1])
    /\ \A e \in ix.log : RuleOf(e[2]) = StatFirstRule(policy, e[1])
    /\ \A e \in pv.log : e[2] \in SkipRules => e[3] # ""

C10_Witness ==
    /\ <<"r/x", "stat_failure">> \in ix.log
    /\ \E e \in pv.log : e[1] = "r/x" /\ e[2] = "stat_failure" /\ e[3] # ""
    /\ "r/x" \notin policy.exclude /\ ~policy.follow_symlinks
    /\ ~fs["r/x"].statOk /\ fs["r/x"].type = "symlink" /\ fs["r/x"].size > policy.max_file_size_bytes

\* The entries a complete traversal has to visit: the roots, and the entries of every
\* visited directory that is not excluded, whose metadata can be read and that read_dir opens.
OpensAsDir(pol, p) ==
    p \notin pol.exclude /\ fs[p].statOk /\ fs[p].type = "dir" /\ fs[p].readDir # "fail"

RECURSIVE ReachableFrom(_, _)
ReachableFrom(pol, S) ==
    LET next == S \cup UNION {fs[p].children : p \in {q \in S : OpensAsDir(pol, q)}}
    IN IF next = S THEN S ELSE ReachableFrom(pol, next)

ToVisit == ReachableFrom(policy, Range(roots))

\* C11: no failure on one entry (stat failure, a directory that does not open, an error
\* while a directory is enumerated) keeps another entry from being visited: a returned
\* preview, and a finished index run without max_files, has visited every entry under the roots.
C11_TraversalContinues ==
    /\ pv.pc = "done" => \A p \in ToVisit : \E e \in pv.log : e[1] = p
    /\ (phase = "finished" /\ opts.max_files = <<>>) => \A p \in ToVisit : \E e \in ix.log : e[1] = p

\* The tasks between the delete and the bulk insert of their replace_file_chunks call.
InReplace == {t \in TaskIds : tasks[t].st = "add"}

\* The tasks that called replace_file_chunks for a path and returned.
ReplaceCallsOf(p) == {t \in TaskIds : tasks[t].path = p}

\* The rows of a path written by replace_file_chunks (add_document and add_chunk store no hash).
ReplaceRows(table, p) == {r \in RowsOf(table, p) : r.file_hash # <<>>}

\* C12: at most one replace_file_chunks call is between its delete and its insert, it
\* holds the mutex and no other operation has touched the rows of its path meanwhile; once
\* two or more calls for the same path have all returned success, the rows they left
\* for the path are exactly the rows of one of the callers, each stored once.
C12_Serialized ==
    /\ Cardinality(InReplace) <= 1
    /\ \A t \in InReplace : db.lock = t /\ RowsOf(db.table, tasks[t].path) = {}
    /\ \A p \in DOMAIN fs :
          (/\ Cardinality(ReplaceCallsOf(p)) >= 2
           /\ \A t \in ReplaceCallsOf(p) : tasks[t].st = "completed" /\ tasks[t].res = OkResult(TRUE))
          => /\ \E t \in ReplaceCallsOf(p) : ReplaceRows(db.table, p) = TaskRows(t)
             /\ \A r \in ReplaceRows(db.table, p) : db.table[r] = 1

C12_Witness ==
    /\ Len(tasks) = 2 /\ tasks[1].path = tasks[2].path
    /\ tasks[1].st = "lock" /\ tasks[2].st = "add" /\ db.lock = 2
    /\ TaskRows(1) # TaskRows(2)
    /\ hist.ret # <<>> /\ hist.ret[1].op = "search_documents"

\* C13: while a preview scan runs the policy in the shared slot, which it reads through
\* its read guard, does not change, and while an index run runs the policy it was started
\* with does not change, although set_index_roots replaces the policy beside them.
C13_OnePolicyPerRun ==
    [][/\ (phase = "preview" /\ phase' = "preview") => policy' = policy
       /\ (phase = "index" /\ phase' = "index") => app'.run_policy = app.run_policy]_vars

C13_Witness ==
    /\ phase = "index" /\ ix.log # {} /\ ix.stack # <<>>
    /\ policy.instance = 1 /\ RunPolicy.instance = 0
    /\ pv.pc = "done" /\ pv.candidates >= 1

\* C14: once index_roots has returned, every task it started has ended (succeeded,
\* failed or panicked) and has been joined and counted, no completion is left in the
\* JoinSet and every permit is back, also when max_files ended the scan loop early.
C14_ReturnAfterJoin ==
    phase = "finished" =>
        /\ \A t \in TaskIds : tasks[t].st = "joined" /\ tasks[t].res.kind \in {"ok", "err", "panic"}
        /\ notified = <<>>
        /\ permits = SemaphorePermits(opts.concurrency)
        /\ ix.ingested + ix.errors = Len(tasks)

C14_Witness ==
    /\ phase = "finished" /\ opts.max_files = <<1>> /\ opts.concurrency = 2
    /\ \E p \in DOMAIN fs : \A e \in ix.log : e[1] # p
    /\ Len(tasks) >= 3 /\ ix.errors = 1

\* The operations of Database.
StoreOps == {"add_document", "add_chunk", "replace_file_chunks", "search_documents"}

\* C15: on a disabled store is_enabled() is false, disabled_reason() is a non-empty
\* string, the table stays empty whatever add_document, add_chunk, replace_file_chunks
\* and process_file calls are made, each call returns success and each read returns no
\* hit; and no store ever changes between enabled and disabled.
C15_DisabledStore ==
    /\ [](~db.enabled =>
            /\ ~is_enabled(db)
            /\ disabled_reason(db) # <<>> /\ disabled_reason(db)[1] # ""
            /\ db.table = EmptyTable
            /\ (hist.ret # <<>> /\ hist.ret[1].op \in StoreOps) => (hist.ret[1].ok /\ hist.ret[1].hits = {})
            /\ \A t \in TaskIds : ~tasks[t].res.stored /\ tasks[t].st \notin {"lock", "add"})
    /\ [][db'.enabled = db.enabled /\ db'.reason = db.reason]_vars

C15_Witness ==
    /\ ~db.enabled /\ hist.calls = MaxCalls
    /\ hist.ret # <<>> /\ hist.ret[1].op = "replace_file_chunks"
    /\ Len(tasks) = MaxCalls /\ \A t \in TaskIds : tasks[t].st = "completed"

\* C16: a search issued while the store is disabled (through silo_search or through
\* SiloApp::search) returns an error that carries the store's disabled reason, and the
\* embedder has not been invoked for it.
C16_DisabledSearch ==
    (/\ ~db.enabled /\ hist.ret # <<>>
     /\ hist.ret[1].op \in {"silo_search", "SiloApp::search"})
    => /\ ~hist.ret[1].ok
       /\ hist.ret[1].reason = db.reason
       /\ ~hist.ret[1].embedded

\* C17: an embedding call that returns success has produced exactly as many vectors as it
\* was given texts: embed_texts on its batch, embed_query on its batch of one, and
\* process_file, which never succeeds on a file whose embedding came back with another
\* number of vectors than chunks.
C17_EmbedCardinality ==
    /\ (hist.ret # <<>> /\ hist.ret[1].op \in {"embed_texts", "embed_query"} /\ hist.ret[1].ok)
           => hist.ret[1].len = hist.ret[1].n
    /\ \A t \in TaskIds :
           (tasks[t].st \in {"lock", "add"} \/ tasks[t].res.kind = "ok") => fault[tasks[t].path] # "embed_count"

\* The text of tokens[s, e) joined by single spaces.
RECURSIVE WindowText(_, _, _)
WindowText(tokens, s, e) ==
    IF s >= e THEN <<>>
    ELSE IF s + 1 = e THEN tokens[e]
    ELSE WindowText(tokens, s, e - 1) \o <<" ">> \o tokens[e]

\* The clamped overlap O' = min(O, W - 1).
ClampedOverlap(w, o) == IF o < w - 1 THEN o ELSE w - 1

\* ceil(a / b) for a >= 0, b >= 1.
CeilDiv(a, b) == (a + b - 1) \div b

ChunkCalled == phase = "serve" /\ hist.ret # <<>> /\ hist.ret[1].op = "chunk"

\* C18: for N >= 1 tokens and W >= 1, chunk i (from 0) has index i, start_token
\* i*(W-O'), end_token min(start_token + W, N) and the text of tokens[start_token,
\* end_token) joined by single spaces; the last chunk is the first window that ends at N.
C18_ChunkWindows ==
    ChunkCalled =>
        LET a == hist.ret[1]
            N == Len(a.tokens)
            cs == a.chunks
            stride == a.w - ClampedOverlap(a.w, a.o)
        IN (N >= 1 /\ a.w >= 1) =>
              /\ Len(cs) >= 1
              /\ \A i \in 1..Len(cs) :
                    /\ cs[i].index = i - 1
                    /\ cs[i].start_token = (i - 1) * stride
                    /\ cs[i].end_token = (IF cs[i].start_token + a.w < N THEN cs[i].start_token + a.w ELSE N)
                    /\ cs[i].text = WindowText(a.tokens, cs[i].start_token, cs[i].end_token)
                    /\ (cs[i].end_token = N) <=> (i = Len(cs))

C18_Witness ==
    /\ ChunkCalled
    /\ Len(hist.ret[1].tokens) = 6 /\ hist.ret[1].w = 3 /\ hist.ret[1].o = 4
    /\ hist.ret[1].text[1] = " "
    /\ Len(hist.ret[1].chunks) = 4 /\ hist.ret[1].chunks[4].start_token = 3

\* C19: the chunker returns (so it terminates) with 0 chunks when N = 0 or W = 0, 1
\* chunk when 1 <= N <= W, and ceil((N - O') / (W - O')) chunks when N > W.
C19_ChunkCount ==
    ChunkCalled =>
        LET a == hist.ret[1]
            N == Len(a.tokens)
            oc == ClampedOverlap(a.w, a.o)
        IN Len(a.chunks) = (IF N = 0 \/ a.w = 0 THEN 0
                            ELSE IF N <= a.w THEN 1
                            ELSE CeilDiv(N - oc, a.w - oc))

C19_Witness ==
    /\ ChunkCalled
    /\ Len(hist.ret[1].tokens) = 6 /\ hist.ret[1].w = 4 /\ hist.ret[1].o = 1
    /\ Len(hist.ret[1].chunks) = 2

\* The chunks stored for a path, as (chunk_index, text, start_token, end_token).
StoredChunks(p) ==
    {<<r.chunk_index, r.content, r.start_token, r.end_token>> : r \in RowsOf(db.table, p)}

\* C20: in the scenario (a.txt = "a b c d e", b.pdf, extensions {txt}, chunk_tokens 3,
\* chunk_overlap_tokens 1) a run that ingested a.txt has stored for it exactly the chunks
\* (0, "a b c", 0, 3) and (1, "c d e", 2, 5); b.pdf is reported skipped with the reason
\* "extension not allowlisted", and the extractor is never invoked on it.
C20_Scenario ==
    /\ \A t \in 1..Len(tasks) : tasks[t].path # "r/y"
    /\ pv.pc = "done" =>
            \E i \in 1..Len(pv.sample_skipped) :
                pv.sample_skipped[i] = [path |-> "r/y", reason |-> "extension not allowlisted"]
    /\ (ix.pc = "done" /\ ix.ingested = 1) =>
            StoredChunks("r/x") = {<<0, <<"a", " ", "b", " ", "c">>, 0, 3>>,
                                   <<1, <<"c", " ", "d", " ", "e">>, 2, 5>>}

\* C21: throughout an index run with concurrency C >= 1 the tasks spawned and not yet
\* joined never number more than 2C, and fewer than 2C whenever the coordinator is
\* about to pop the next entry (or waits for a permit for it).
C21_Backpressure ==
    (phase = "index" /\ opts.concurrency >= 1) =>
        /\ JoinSetLen(tasks) <= 2 * opts.concurrency
        /\ ix.pc \in {"scan", "acquire", "spawn"} => JoinSetLen(tasks) < 2 * opts.concurrency

C21_Witness ==
    /\ phase = "index" /\ opts.concurrency = 2 /\ ix.pc = "drain"
    /\ JoinSetLen(tasks) = 4
    /\ ix.stack # <<>>

\* The number of copies of row r in a table.
Copies(table, r) == IF r \in DOMAIN table THEN table[r] ELSE 0

\* A step of the replace_file_chunks call t: its delete, its insert, or its failure.
ReplaceStep(t) ==
    /\ t \in 1..Len(tasks)
    /\ tasks[t].st \in {"lock", "add"}
    /\ tasks'[t].st # tasks[t].st

\* C22: a step of replace_file_chunks(p, ..), whether the call succeeds or fails, leaves
\* the rows of every other path as they were (also of a path that starts with p); its
\* delete leaves no row of p and removes nothing else, its insert adds rows of p only.
C22_ReplaceFrame ==
    [][\A t \in 1..Len(tasks) : ReplaceStep(t) =>
          /\ \A r \in DOMAIN db.table \cup DOMAIN db'.table :
                r.path # tasks[t].path => Copies(db'.table, r) = Copies(db.table, r)
          /\ (tasks[t].st = "lock" /\ tasks'[t].st = "add") => RowsOf(db'.table, tasks[t].path) = {}]_vars

C22_Witness ==
    \E t \in 1..Len(tasks) :
        /\ tasks[t].path = "r/x" /\ tasks[t].st = "completed" /\ tasks[t].res.kind = "err"
        /\ fault["r/x"] = "add"
        /\ RowsOf(db.table, "r/x") = {}
        /\ RowsOf(db.table, "r/x'") # {}
        /\ \E u \in 1..Len(tasks) :
              tasks[u].path = "r/x'" /\ tasks[u].st = "completed" /\ tasks[u].res.kind = "ok"

\* C23: two previews of the same tree, roots, policy and sample caps return the same
\* sample_candidates and the same sample_skipped, each in ascending path order, however
\* the directory entries were enumerated, also when a count exceeds its cap.
C23_PreviewDeterministic ==
    (pv.pc = "done" /\ hist.first # <<>>) =>
        /\ pv.sample_candidates = hist.first[1].sample_candidates
        /\ pv.sample_skipped = hist.first[1].sample_skipped
        /\ \A i, j \in 1..Len(pv.sample_candidates) :
              i < j => PathRank(pv.sample_candidates[i].path) < PathRank(pv.sample_candidates[j].path)
        /\ \A i, j \in 1..Len(pv.sample_skipped) :
              i < j => PathRank(pv.sample_skipped[i].path) < PathRank(pv.sample_skipped[j].path)

\* The same, for the previews whose counts stay within the caps.
PreviewSameWithinCaps ==
    (/\ pv.pc = "done" /\ hist.first # <<>>
     /\ pv.candidates <= opts.max_sample_candidates /\ pv.skipped <= opts.max_sample_skipped) =>
        /\ pv.sample_candidates = hist.first[1].sample_candidates
        /\ pv.sample_skipped = hist.first[1].sample_skipped

ExtractCalled == phase = "serve" /\ hist.ret # <<>> /\ hist.ret[1].op = "extract"

\* C24: for every content and every max_text_bytes the text extract_text returns has at
\* most max_text_bytes bytes, truncated is true exactly when the raw bytes were more than
\* max_text_bytes, and a call whose read (or pdftotext run) succeeded does not fail.
C24_ExtractCap ==
    ExtractCalled =>
        LET a == hist.ret[1]
        IN /\ a.res.ok <=> (a.read = "ok" /\ a.run = "ok")
           /\ a.res.ok =>
                /\ Len(a.res.text) <= a.max_text_bytes
                /\ a.res.truncated <=> (Len(a.bytes) > a.max_text_bytes)

\* The flag and the absence of failure alone.
ExtractFlagExact ==
    ExtractCalled =>
        LET a == hist.ret[1]
        IN /\ a.res.ok <=> (a.read = "ok" /\ a.run = "ok")
           /\ a.res.ok => (a.res.truncated <=> (Len(a.bytes) > a.max_text_bytes))

\* The coordinator has joined and counted the task of file f.
JoinedFile(f) == \E t \in 1..Len(tasks) : tasks[t].path = f /\ tasks[t].st = "joined"

\* C25: with concurrency >= 2 and max_files unset, when the task of one file never
\* terminates every other eligible file is eventually started, joined and counted in
\* ingested or errors.
C25_HangIsolated ==
    (opts.concurrency >= 2 /\ opts.max_files = <<>>)
        ~> (/\ \A f \in RunFiles : fault[f] # "hang" => JoinedFile(f)
            /\ ix.ingested + ix.errors = Cardinality({f \in RunFiles : fault[f] # "hang"}))

C25_Witness ==
    /\ opts.concurrency >= 2 /\ opts.max_files = <<>>
    /\ \E t \in 1..Len(tasks) : fault[tasks[t].path] = "hang" /\ tasks[t].st = "extract"
    /\ ix.pc = "finish" /\ JoinSetLen(tasks) = 1
    /\ ix.ingested = NumFiles - 2 /\ ix.errors = 1

\* C26: the row id is a key of the table: after any sequence of add_document, add_chunk
\* and replace_file_chunks calls no row is stored twice and no two stored rows share an id.
C26_IdIsKey ==
    /\ \A r \in DOMAIN db.table : db.table[r] = 1
    /\ \A r1, r2 \in DOMAIN db.table : r1.id = r2.id => r1 = r2

\* The same for the rows that replace_file_chunks built.
ReplaceRowsKeyed ==
    \A r1, r2 \in DOMAIN db.table :
        (r1.file_hash # <<>> /\ r2.file_hash # <<>> /\ r1.id = r2.id) => (r1 = r2 /\ db.table[r1] = 1)

\* How far process_file has got in task t.
StageRank(st) ==
    CASE st = "extract" -> 0 [] st = "embed" -> 1 [] st = "lock" -> 2 [] st = "add" -> 3
      [] st = "completed" -> 4 [] OTHER -> 5

JoinedTasks == {t \in 1..Len(tasks) : tasks[t].st = "joined"}

\* C27: every started task runs process_file once, without retry (its stages only
\* advance and its result is final), and is joined and counted once: ingested + errors
\* always equals the number of joined tasks, and the number of started tasks when the run
\* returns.
C27_RunAccounting ==
    /\ [](ix.ingested + ix.errors = Cardinality(JoinedTasks))
    /\ [](ix.pc = "done" => ix.ingested + ix.errors = Len(tasks))
    /\ [][\A t \in 1..Len(tasks) :
            /\ Len(tasks') >= Len(tasks)
            /\ tasks'[t].path = tasks[t].path
            /\ StageRank(tasks'[t].st) >= StageRank(tasks[t].st)
            /\ StageRank(tasks[t].st) >= 4 => tasks'[t].res = tasks[t].res
            /\ (tasks[t].st # "joined" /\ tasks'[t].st = "joined") =>
                    (ix'.ingested + ix'.errors = ix.ingested + ix.errors + 1)]_vars

C27_Witness ==
    /\ ix.pc = "done" /\ opts.concurrency = 1 /\ opts.max_files = <<>>
    /\ Len(tasks) = NumFiles
    /\ ix.errors = 1 /\ ix.ingested = NumFiles - 1
    /\ fault[RunFileNames[NumFiles]] = "extract"

\* C28: an ingestion reports stored = true exactly when the store is enabled and its
\* replace_file_chunks succeeded (its rows are then in the table); with a disabled store
\* no store operation is invoked; and the counters of the run always satisfy stored <=
\* ingested, stored = ingested on an enabled store and stored = 0 on a disabled one.
C28_StoredAccounting ==
    /\ \A t \in 1..Len(tasks) :
          /\ tasks[t].res.kind = "ok" => (tasks[t].res.stored <=> db.enabled)
          /\ tasks[t].res.stored =>
                (tasks[t].res.kind = "ok" /\ RowsOf(db.table, tasks[t].path) = TaskRows(t))
          /\ ~db.enabled => tasks[t].st \notin {"lock", "add"}
    /\ ~db.enabled => (db.table = EmptyTable /\ db.lock = 0)
    /\ ix.stored <= ix.ingested
    /\ db.enabled => ix.stored = ix.ingested
    /\ ~db.enabled => ix.stored = 0

C28_Witness ==
    /\ ix.pc = "done" /\ ~db.enabled /\ opts.max_files = <<>>
    /\ ix.ingested = NumFiles - 1 /\ ix.errors = 1 /\ ix.stored = 0

StoredOnEnabledReached ==
    /\ ix.pc = "done" /\ db.enabled /\ opts.max_files = <<>>
    /\ ix.ingested = NumFiles - 1 /\ ix.errors = 1 /\ ix.stored = NumFiles - 1
    /\ \E p \in RunFiles : fault[p] = "add"

\* C29: in every preview sample_candidates has min(candidates, max_sample_candidates)
\* entries and sample_skipped has min(skipped, max_sample_skipped) entries, each cap
\* acting on its own list only, and candidates and skipped count every candidate and
\* every skipped entry the walk met, whatever the caps.
C29_SampleCaps ==
    /\ Len(pv.sample_candidates) = Min(pv.candidates, opts.max_sample_candidates)
    /\ Len(pv.sample_skipped) = Min(pv.skipped, opts.max_sample_skipped)
    /\ pv.candidates = Cardinality({l \in pv.log : l[2] = "candidate"})
    /\ pv.skipped = Cardinality({l \in pv.log : l[2] \in SkipRules})

C29_Witness ==
    /\ pv.pc = "done"
    /\ opts.max_sample_candidates = 1 /\ opts.max_sample_skipped = 2
    /\ pv.candidates = 2 /\ Len(pv.sample_candidates) = 1
    /\ fs["r/x"].type = "dir"

\* The skipped sample over its cap while the candidate sample is within its own.
SkippedOverCapReached ==
    /\ pv.pc = "done"
    /\ opts.max_sample_candidates = 2 /\ opts.max_sample_skipped = 1
    /\ pv.skipped = 2 /\ Len(pv.sample_skipped) = 1
    /\ pv.candidates = 0

\* The entries of the sample that report a failed ingestion, and those that report an
\* I/O error of the scan.
IngestEntries(sample) == {i \in 1..Len(sample) : sample[i][1] \in {"ingest", "task join error"}}
ScanEntries(sample) == {i \in 1..Len(sample) : sample[i][1] \in {"metadata", "read_dir"}}

\* The entry describes a task joined with a failure.
DescribesFailedTask(e) ==
    \E t \in 1..Len(tasks) :
        /\ tasks[t].st = "joined"
        /\ \/ e = <<"ingest", tasks[t].path, tasks[t].res.msg>> /\ tasks[t].res.kind = "err"
           \/ e = <<"task join error">> /\ tasks[t].res.kind = "panic"

\* The entry describes a path the scan skipped on an I/O error.
DescribesScanError(e) ==
    \/ e[1] = "metadata" /\ <<e[2], "stat_failure">> \in ix.log
    \/ e[1] = "read_dir" /\ <<e[2], "dir_unreadable">> \in ix.log

ScanErrorCount == Cardinality({l \in ix.log : l[2] \in {"stat_failure", "dir_unreadable"}})

IsPrefix(a, b) == Len(a) <= Len(b) /\ SubSeq(b, 1, Len(a)) = a

\* C30 as stated: the sample never exceeds max_sample_errors, every entry describes a
\* file counted in errors, and every failed ingestion is recorded while the sample is
\* below the cap.
C30_ErrorSampleAsStated ==
    /\ Len(ix.sample_errors) <= opts.max_sample_errors
    /\ \A i \in 1..Len(ix.sample_errors) : DescribesFailedTask(ix.sample_errors[i])
    /\ Len(ix.sample_errors) = Min(ix.errors, opts.max_sample_errors)

\* C30: the sample never exceeds max_sample_errors, entries are appended and never
\* removed, every entry describes a failed ingestion counted in errors or a stat or
\* read_dir failure of the scan counted in skipped, and every such failure is recorded
\* while the sample is below the cap.
C30_ErrorSample ==
    /\ [](/\ Len(ix.sample_errors) <= opts.max_sample_errors
          /\ \A i \in 1..Len(ix.sample_errors) :
                DescribesFailedTask(ix.sample_errors[i]) \/ DescribesScanError(ix.sample_errors[i])
          /\ Cardinality(IngestEntries(ix.sample_errors)) <= ix.errors
          /\ Cardinality(ScanEntries(ix.sample_errors)) <= ix.skipped
          /\ Len(ix.sample_errors) = Min(ix.errors + ScanErrorCount, opts.max_sample_errors))
    /\ [][IsPrefix(ix.sample_errors, ix'.sample_errors)]_vars

C30_Witness ==
    /\ ix.pc = "done" /\ opts.max_sample_errors = 1
    /\ ix.sample_errors = << <<"metadata", "r/x">> >>
    /\ ix.errors = 1 /\ ix.skipped = 1

\* C31: an excluded directory is counted as skipped and is not enumerated: its child is
\* never put on a stack, visited, counted or started as a task, in the preview and in the
\* index run.
C31_ExclusionPrunes ==
    ("r/x" \in policy.exclude /\ "r/x/z" \in DOMAIN fs) =>
        /\ \A l \in pv.log : l[1] # "r/x/z" /\ (l[1] = "r/x" => l[2] = "excluded")
        /\ \A l \in ix.log : l[1] # "r/x/z" /\ (l[1] = "r/x" => l[2] = "excluded")
        /\ "r/x/z" \notin Range(pv.stack) \cup Range(ix.stack)
        /\ \A t \in 1..Len(tasks) : tasks[t].path \notin {"r/x", "r/x/z"}
        /\ pv.pc = "done" => (pv.skipped = 1 /\ pv.dirs_seen = 1 /\ pv.files_seen = 1 /\ pv.candidates = 1)
        /\ (ix.pc = "done" /\ opts.max_files = <<>>) =>
                (ix.skipped = 1 /\ ix.scanned_dirs = 1 /\ ix.scanned_files = 1 /\ ix.ingested = 1)

C31_Witness ==
    /\ "r/x" \in policy.exclude /\ fs["r/x"].type = "dir" /\ fs["r/x"].statOk
    /\ fs["r/x"].readDir = "ok"
    /\ ix.pc = "done" /\ opts.max_files = <<>>
    /\ <<"r/x", "excluded">> \in ix.log /\ <<"r/x", "excluded", "excluded by glob">> \in pv.log
    /\ ix.skipped = 1 /\ ix.ingested = 1

\* C32: once set_index_roots has saved the configuration, compiled the policy and
\* swapped it in, the call eventually returns, holding no lock.
C32_SetRootsReturns ==
    (app.set_pc = "get_config") ~> (app.set_pc = "returned" /\ ~app.cfg_writer)

\* set_index_roots waits for a read guard on config while it holds the write guard.
SetRootsSelfBlocked == app.set_pc = "get_config" /\ app.cfg_writer

\* The preview handler holds the read guard on fs_policy and waits for config.read while
\* set_index_roots holds the write guard on config and waits for fs_policy.write.
LockOrderDeadlock ==
    /\ app.preview_pc = "roots" /\ app.readers >= 1 /\ ~ConfigReadFree(app)
    /\ app.set_pc = "swap" /\ app.cfg_writer /\ ~WriteLockFree(app)

\* C33: a preview running beside set_index_roots never reaches a state in which each
\* waits for a lock the other holds.
C33_NoLockOrderDeadlock == ~LockOrderDeadlock

\* C34: for every concurrency (0 included) and every max_files, when every task
\* terminates the fairly scheduled run eventually reaches Completed with every spawned
\* task joined, every permit returned and the store lock free.
C34_RunCompletes ==
    <>[](/\ phase = "finished" /\ ix.pc = "done"
         /\ JoinSetLen(tasks) = 0
         /\ permits = SemaphorePermits(opts.concurrency)
         /\ db.lock = 0)

\* A run with concurrency 0 has completed after ingesting files.
C34_Witness ==
    /\ opts.concurrency = 0 /\ opts.max_files = <<>>
    /\ phase = "finished" /\ ix.pc = "done"
    /\ ix.ingested + ix.errors = NumFiles
    /\ permits = 1

\* A directory that symlink_metadata reports and read_dir cannot open, not excluded.
UnreadableDir(pol, c) ==
    c \notin pol.exclude /\ fs[c].statOk /\ fs[c].type = "dir" /\ fs[c].readDir = "fail"

\* A regular file that passed the exclusion test, the stat and the symlink test.
RegularPassed(pol, c) == c \notin pol.exclude /\ fs[c].statOk /\ fs[c].type = "file"

\* The counters of one popped entry c: ds, dd, dc and df are the increases of skipped,
\* of the directory counter, of the candidates and of the file counter.
PopAccounted(pol, c, ds, dd, dc, df) ==
    /\ ds \in 0..1 /\ dd \in 0..1 /\ dc \in 0..1
    /\ IF UnreadableDir(pol, c) THEN ds = 1 /\ dd = 1 /\ dc = 0 ELSE ds + dd + dc = 1
    /\ df = (IF RegularPassed(pol, c) THEN 1 ELSE 0)
    /\ dc <= df

\* The candidates of the index run: the accepted files, spawned or waiting for a permit.
IndexCandidates(ixr, ts) == Len(ts) + (IF ixr.current # None THEN 1 ELSE 0)

PreviewPopAccounted ==
    (phase = "preview" /\ pv'.stack # pv.stack) =>
        PopAccounted(policy, Last(pv.stack),
                     pv'.skipped - pv.skipped, pv'.dirs_seen - pv.dirs_seen,
                     pv'.candidates - pv.candidates, pv'.files_seen - pv.files_seen)

IndexPopAccounted ==
    PopAccounted(RunPolicy, Last(ix.stack),
                 ix'.skipped - ix.skipped, ix'.scanned_dirs - ix.scanned_dirs,
                 IndexCandidates(ix', tasks') - IndexCandidates(ix, tasks),
                 ix'.scanned_files - ix.scanned_files)

\* C35 as stated: every entry popped by the scanner, in the preview and in the index run,
\* is counted in skipped, the directories or the candidates (once, or as a directory and
\* as skipped when it cannot be read), and the file counter counts the regular files
\* that passed the exclusion and symlink tests.
C35_ScanAccountingAsStated ==
    [][/\ PreviewPopAccounted
       /\ (phase = "index" /\ ix'.stack # ix.stack) => IndexPopAccounted]_vars

\* C35: the same for every entry popped by the preview and for every entry popped by the
\* index run while ingested is below max_files; the entry popped when the target is
\* reached ends the scan and is counted nowhere. The candidates never exceed the files
\* seen.
C35_ScanAccounting ==
    /\ [][/\ PreviewPopAccounted
          /\ (phase = "index" /\ ix'.stack # ix.stack) =>
                IF opts.max_files # <<>> /\ ix.ingested >= opts.max_files[1]
                THEN /\ ix'.pc = "finish"
                     /\ [ix' EXCEPT !.pc = ix.pc, !.stack = ix.stack] = ix
                     /\ tasks' = tasks
                ELSE IndexPopAccounted]_vars
    /\ [](pv.candidates <= pv.files_seen /\ IndexCandidates(ix, tasks) <= ix.scanned_files)

\* A finished run over an unreadable directory r/x and the candidate r/y.
C35_Witness ==
    /\ phase = "finished" /\ UnreadableDir(policy, "r/x")
    /\ pv.dirs_seen = 2 /\ pv.skipped = 1 /\ pv.candidates = 1 /\ pv.files_seen = 1
    /\ ix.scanned_dirs = 2 /\ ix.skipped = 1 /\ Len(tasks) = 1 /\ ix.scanned_files = 1

\* The directories and the regular files of the tree.
TreeDirs == {p \in DOMAIN fs : fs[p].type = "dir"}
TreeFiles == {p \in DOMAIN fs : fs[p].type = "file"}

\* C36: whatever the configured roots (repeated, or one inside another), a scan and an
\* index run visit each entry at most once and start at most one task per accepted file.
C36_VisitedOnce ==
    /\ pv.dirs_seen <= Cardinality(TreeDirs) /\ pv.files_seen <= Cardinality(TreeFiles)
    /\ pv.candidates <= Cardinality(TreeFiles)
    /\ ix.scanned_dirs <= Cardinality(TreeDirs) /\ ix.scanned_files <= Cardinality(TreeFiles)
    /\ \A t1, t2 \in 1..Len(tasks) : tasks[t1].path = tasks[t2].path => t1 = t2
    /\ ix.ingested <= Cardinality(TreeFiles)

\* A finished run over the roots [r, r]: each of the two files was ingested twice.
RootsCountedTwice ==
    /\ roots = <<"r", "r">> /\ phase = "finished"
    /\ pv.candidates = 4 /\ ix.ingested = 4 /\ Len(tasks) = 4

\* Rows are stored for a path that the policy excludes, whose extension is not
\* allowlisted or whose size exceeds the cap.
StoredOutsidePolicy(p) ==
    /\ RowsOf(db.table, p) # {}
    /\ \/ p \in policy.exclude
       \/ fs[p].ext = None \/ ToAsciiLowercase(fs[p].ext) \notin policy.allow_extensions
       \/ fs[p].size > policy.max_file_size_bytes

\* C37: under a fixed policy no write path (index run, silo_ingest_file) stores rows for
\* a path that the policy excludes, whose extension is not allowlisted, or whose size
\* exceeds the cap.
C37_PolicyOnWrites == \A p \in DOMAIN fs : ~StoredOutsidePolicy(p)

\* silo_ingest_file has stored the rows of the excluded file r/x.
ExcludedFileStored == "r/x" \in policy.exclude /\ RowsOf(db.table, "r/x") # {}

\* The index run alone stores rows for accepted files only.
IndexRunWithinPolicy == phase \in {"preview", "index", "finished"} => C37_PolicyOnWrites

\* The stage that follows each stage of process_file when it does not fail.
StageAfter(st) ==
    CASE st = "extract" -> "embed" [] st = "embed" -> "lock" [] st = "lock" -> "add"
      [] OTHER -> "completed"

\* The stage of task t fails before the store: the extraction, the embedding or the
\* check of the number of vectors.
FailsBeforeStore(t) ==
    \/ tasks[t].st = "extract" /\ fault[tasks[t].path] = "extract"
    \/ tasks[t].st = "embed" /\ fault[tasks[t].path] \in {"embed", "embed_count"}

\* C38: process_file runs extract, chunk and embed, and the store last: a task moves
\* from a stage to the next or ends, the extraction and embedding stages never touch the
\* store, and a task whose extraction or embedding fails, or whose vectors do not match
\* its chunks, ends with an error in that step, leaving every stored row as it was.
C38_StoreLast ==
    [][\A t \in 1..Len(tasks) :
          tasks'[t].st # tasks[t].st =>
            /\ tasks'[t].st \in {StageAfter(tasks[t].st), "completed"}
            /\ tasks[t].st \in {"extract", "embed"} => db' = db
            /\ FailsBeforeStore(t) =>
                  /\ tasks'[t].st = "completed" /\ tasks'[t].res.kind = "err"
                  /\ db'.table = db.table]_vars

\* A second ingestion of a path failed on the vector count after a first one had
\* stored its rows, which are still there.
C38_Witness ==
    /\ Len(tasks) = 2 /\ tasks[1].path = tasks[2].path
    /\ tasks[1].res = OkResult(TRUE)
    /\ tasks[2].st = "completed" /\ tasks[2].res.kind = "err"
    /\ fault[tasks[2].path] = "embed_count"
    /\ RowsOf(db.table, tasks[1].path) = hist.lastGood[tasks[1].path]
    /\ RowsOf(db.table, tasks[1].path) # {}

\* The tokens of the first chunk followed by those of every later chunk without its
\* first `oc` tokens.
RECURSIVE Reassemble(_, _)
Reassemble(cs, oc) ==
    IF cs = <<>> THEN <<>>
    ELSE IF Len(cs) = 1 THEN split_whitespace(cs[1].text)
    ELSE LET toks == split_whitespace(Last(cs).text)
         IN Reassemble(Front(cs), oc) \o SubSeq(toks, oc + 1, Len(toks))

\* C39: for N >= 1 tokens and W >= 1 the chunks are numbered 0..k-1, the first starts at
\* token 0, the last ends at token N, consecutive chunks overlap by exactly
\* O' = min(O, W-1) tokens, and the first chunk's tokens followed by the tokens of each
\* later chunk after its first O' are the original token sequence.
C39_ChunkLossless ==
    ChunkCalled =>
        LET a == hist.ret[1]
            N == Len(a.tokens)
            cs == a.chunks
            oc == ClampedOverlap(a.w, a.o)
        IN (N >= 1 /\ a.w >= 1) =>
              /\ Len(cs) >= 1
              /\ \A i \in 1..Len(cs) : cs[i].index = i - 1
              /\ cs[1].start_token = 0
              /\ cs[Len(cs)].end_token = N
              /\ \A i \in 1..(Len(cs) - 1) : cs[i].end_token - cs[i + 1].start_token = oc
              /\ Reassemble(cs, oc) = a.tokens

\* Six tokens in a padded text, chunked by windows of 3 overlapping by 1: three chunks.
C39_Witness ==
    /\ ChunkCalled
    /\ Len(hist.ret[1].tokens) = 6 /\ hist.ret[1].w = 3 /\ hist.ret[1].o = 1
    /\ hist.ret[1].text[1] = " "
    /\ Len(hist.ret[1].chunks) = 3 /\ hist.ret[1].chunks[3].start_token = 4

====
